---- MODULE Spec2Model ----
(***************************************************************************)
(* Model of the platform-independent raycaster core (raycaster.c):         *)
(* rc_update (player physics, collision, end-trigger) and rc_cast (DDA     *)
(* column casting, sprite collection, back-to-front sort).                  *)
(*                                                                         *)
(* Numbers.  The C code computes in `float'.  The model computes in fixed  *)
(* point: every real value v is the integer v * SCALE, and every product   *)
(* or quotient is rounded to the nearest unit (sign-symmetric), the way a  *)
(* float operation rounds to the nearest representable value.  Casts       *)
(* (int)x truncate toward zero, as in C.                                   *)
(***************************************************************************)
EXTENDS Integers, Sequences, FiniteSets, TLC

VARIABLES
    map,                    \* const Map *map: [w, h, tiles, info, sprites]
    player,                 \* gs->player: [x, y, dir_x, dir_y, plane_x, plane_y]
    game_over,              \* gs->game_over
    hits,                   \* gs->hits[SCREEN_W]
    z_buffer,               \* gs->z_buffer[SCREEN_W]
    visible_sprites,        \* gs->visible_sprites[MAX_VISIBLE_SPRITES]
    visible_sprite_count,   \* gs->visible_sprite_count
    qsort_ties,             \* how the C library's qsort orders equal keys
    last,                   \* the core operation called last
    ticks,                  \* number of rc_update calls so far
    probe,                  \* last is_wall query: [x, y, res]
    seen,                   \* rc_cast's seen[][], as the set of marked cells
    pending                 \* columns of the running rc_cast not yet cast

\* the raycaster core's state
coreVars == <<map, player, game_over, hits, z_buffer, visible_sprites,
              visible_sprite_count, qsort_ties, last, ticks, probe, seen,
              pending>>

VARIABLES
    sprites,                \* gs->sprites[MAX_SPRITES]
    sprite_count,           \* gs->sprite_count
    sorted_order,           \* the caller's int sorted_order[MAX_SPRITES]
    sort_n                  \* the value sprites_sort returned last

\* sprites.c: the world sprite table and the caller's order array
sortVars == <<sprites, sprite_count, sorted_order, sort_n>>

VARIABLES
    accum,                  \* main's float accum, in units of 2^-29 s
    input,                  \* main's Input, as polled this frame
    running,                \* main's bool running
    updates,                \* rc_update calls in the current loop iteration
    frames,                 \* completed iterations of the main loop
    pc,                     \* main's position: "top", "update", "end_wait", "done"
    polled,                 \* what platform_poll_input returned last
    casts,                  \* rc_cast calls in the current loop iteration
    renders,                \* platform_render calls in the current iteration
    end_screen              \* "none" in the loop, then "shown" or "not shown"

\* main.c: the fixed-step loop
loopVars == <<accum, input, running, updates, frames, pc, polled, casts,
             renders, end_screen>>

VARIABLES
    file,                   \* the characters of the map (tiles) file, or NoFile
    info_file,              \* the characters of the info file, or NoFile
    sprites_file,           \* the sprites file, NoFile, or NoPath (NULL path)
    load_ret,               \* map_load's result: "none" (not called), "true", "false"
    cells_written,          \* the [row][col] index pairs map_load stored to
    oob_write               \* what a store past the end of a row does

\* map_manager_ascii.c: the loader's input, result and stores
loadVars == <<file, info_file, sprites_file, load_ret, cells_written,
             oob_write>>

VARIABLES
    fx,                     \* p->x as a float32 value, in units of 2^-27
    fdt                     \* the dt of each rc_update call, in units of 2^-27

\* raycaster.c: the player's x coordinate and the tick length at float32
\* resolution, for walks along a row's centre line
walkVars == <<fx, fdt>>

vars == <<coreVars, sortVars, loopVars, loadVars, walkVars>>

(***************************************************************************)
(* Fixed-point arithmetic                                                  *)
(***************************************************************************)
SCALE == 1000

Abs(n) == IF n < 0 THEN -n ELSE n

\* n / d rounded to the nearest integer, symmetric in sign (d # 0)
Div(n, d) ==
    LET q == (Abs(n) + (Abs(d) \div 2)) \div Abs(d)
    IN  IF (n < 0) # (d < 0) THEN -q ELSE q

\* float product a * b of two fixed-point values
Mul(a, b) == Div(a * b, SCALE)

\* float quotient a / b of two fixed-point values
Quot(a, b) == Div(a * SCALE, b)

\* (int)v : C float-to-int conversion truncates toward zero
Trunc(v) == IF v >= 0 THEN v \div SCALE ELSE -((-v) \div SCALE)

\* floorf(v), as a fixed-point value
Floorf(v) == (v \div SCALE) * SCALE

(***************************************************************************)
(* Program constants                                                       *)
(***************************************************************************)
MOVE_SPD   == 3000      \* 3.0  map units / second
ROT_SPD    == 2500      \* 2.5  radians / second
COL_MARGIN == 150       \* 0.15 map units

TILE_FLOOR           == 0
INFO_TRIGGER_ENDGAME == 5
SPRITE_EMPTY         == 0

\* cosf / sinf at the rotation angles ROT_SPD * dt the model's ticks use
\* (0.043 rad for dt = 0.017 s, 0.625 rad for dt = 0.25 s); cos is even, sin odd
Cosf(rot) ==
    CASE Abs(rot) = 43  -> 999
      [] Abs(rot) = 625 -> 811
      [] OTHER          -> SCALE

Sinf(rot) ==
    LET s == CASE Abs(rot) = 43  -> 43
               [] Abs(rot) = 625 -> 585
               [] OTHER          -> 0
    IN  IF rot < 0 THEN -s ELSE s

(***************************************************************************)
(* is_wall                                                                 *)
(***************************************************************************)
is_wall(m, x, y) ==
    LET mx == Trunc(x)
        my == Trunc(y)
    IN  IF mx < 0 \/ my < 0 \/ mx >= m.w \/ my >= m.h
        THEN TRUE
        ELSE m.tiles[my][mx] > TILE_FLOOR

(***************************************************************************)
(* rc_update                                                               *)
(***************************************************************************)
\* the walk's bound: rc_update calls per behaviour
MaxTicks == 1

\* tick lengths in seconds: 0.017 (main.c's DT = 1/60 at the model's
\* resolution) and 0.25; both satisfy MOVE_SPD*dt + COL_MARGIN < 1
DTs == {17, 250}

Inputs == [forward : BOOLEAN, back : BOOLEAN,
           turn_left : BOOLEAN, turn_right : BOOLEAN]

\* variant: the two turn flags add up, so that both together cancel
RotAngle_Cancels(in, dt) ==
    LET r0 == 0
        r1 == IF in.turn_left  THEN r0 + Mul(-ROT_SPD, dt) ELSE r0
        r2 == IF in.turn_right THEN r1 + Mul(ROT_SPD, dt)  ELSE r1
    IN  r2

\* float rot = 0; if (turn_left) rot = -ROT_SPD*dt; if (turn_right) rot = ROT_SPD*dt;
RotAngle(in, dt) ==
    LET r0 == 0
        r1 == IF in.turn_left  THEN Mul(-ROT_SPD, dt) ELSE r0
        r2 == IF in.turn_right THEN Mul(ROT_SPD, dt)  ELSE r1
    IN  r2

\* variant: dir_y and plane_y are computed from the already-rotated x
\* components (no saved od / op)
Rotate_UsesUpdatedX(p, rot) ==
    IF rot # 0
    THEN LET c  == Cosf(rot)
             s  == Sinf(rot)
             dx == Mul(p.dir_x, c)   - Mul(p.dir_y, s)
             px == Mul(p.plane_x, c) - Mul(p.plane_y, s)
         IN  [p EXCEPT
                !.dir_x   = dx,
                !.dir_y   = Mul(dx, s) + Mul(p.dir_y, c),
                !.plane_x = px,
                !.plane_y = Mul(px, s) + Mul(p.plane_y, c)]
    ELSE p

\* the 2x2 rotation applied to dir and plane (each from its old components)
Rotate(p, rot) ==
    IF rot # 0
    THEN LET c == Cosf(rot)
             s == Sinf(rot)
         IN  [p EXCEPT
                !.dir_x   = Mul(p.dir_x, c)   - Mul(p.dir_y, s),
                !.dir_y   = Mul(p.dir_x, s)   + Mul(p.dir_y, c),
                !.plane_x = Mul(p.plane_x, c) - Mul(p.plane_y, s),
                !.plane_y = Mul(p.plane_x, s) + Mul(p.plane_y, c)]
    ELSE p

\* variant: the step is not scaled by the tick length
Displacement_NotScaledByDt(d, in, dt) ==
    LET d0 == 0
        d1 == IF in.forward THEN d0 + Mul(d, MOVE_SPD) ELSE d0
        d2 == IF in.back    THEN d1 - Mul(d, MOVE_SPD) ELSE d1
    IN  d2

\* candidate displacement along one axis, d = dir_x or dir_y after rotation
Displacement(d, in, dt) ==
    LET d0 == 0
        d1 == IF in.forward THEN d0 + Mul(Mul(d, MOVE_SPD), dt) ELSE d0
        d2 == IF in.back    THEN d1 - Mul(Mul(d, MOVE_SPD), dt) ELSE d1
    IN  d2

\* (d > 0 ? COL_MARGIN : -COL_MARGIN)
Margin(d) == IF d > 0 THEN COL_MARGIN ELSE -COL_MARGIN

\* if (!is_wall(map, p->x + dx + margin, p->y)) p->x += dx;
MoveX(p, m, dx) ==
    IF ~is_wall(m, p.x + dx + Margin(dx), p.y)
    THEN [p EXCEPT !.x = p.x + dx]
    ELSE p

\* if (!is_wall(map, p->x, p->y + dy + margin)) p->y += dy;
MoveY(p, m, dy) ==
    IF ~is_wall(m, p.x, p.y + dy + Margin(dy))
    THEN [p EXCEPT !.y = p.y + dy]
    ELSE p

\* variant: both probes taken at the position before the tick
Translate_ProbesAtOldPosition(p, m, dx, dy) ==
    [MoveX(p, m, dx) EXCEPT !.y = MoveY(p, m, dy).y]

\* X is resolved first, Y is tested at the already-updated x
Translate(p, m, dx, dy) == MoveY(MoveX(p, m, dx), m, dy)

\* variant: entering the trigger cell is enough, no radius test
AtTriggerCentre_CellOnly(p, m) ==
    LET cx == Trunc(p.x)
        cy == Trunc(p.y)
    IN  /\ cx >= 0 /\ cy >= 0 /\ cx < m.w /\ cy < m.h
        /\ m.info[cy][cx] = INFO_TRIGGER_ENDGAME

\* endgame detection: the player's cell carries the trigger and the player
\* is within COL_MARGIN of the cell centre.  The squares are compared at
\* full precision (units of 1/SCALE^2): a float holds them exactly.
AtTriggerCentre(p, m) ==
    LET cx == Trunc(p.x)
        cy == Trunc(p.y)
    IN  /\ cx >= 0 /\ cy >= 0 /\ cx < m.w /\ cy < m.h
        /\ m.info[cy][cx] = INFO_TRIGGER_ENDGAME
        /\ LET centre_x == cx * SCALE + SCALE \div 2
               centre_y == cy * SCALE + SCALE \div 2
               ex == p.x - centre_x
               ey == p.y - centre_y
           IN  ex * ex + ey * ey <= COL_MARGIN * COL_MARGIN

\* the player after one rc_update
UpdatePlayer(p, m, in, dt) ==
    LET pr == Rotate(p, RotAngle(in, dt))
        dx == Displacement(pr.dir_x, in, dt)
        dy == Displacement(pr.dir_y, in, dt)
    IN  Translate(pr, m, dx, dy)

\* variant: the flag is assigned the outcome of the test on every call
EndgameFlag_Assigned(p, m, over) == AtTriggerCentre(p, m)

\* if (...) gs->game_over = true: the flag is only ever set
EndgameFlag(p, m, over) == IF AtTriggerCentre(p, m) THEN TRUE ELSE over

\* variant: the tick also empties the visible-sprite list of the last frame
rc_update_within_ClearsList(in, dt, n) ==
    /\ ticks < n
    /\ \E p2 \in {UpdatePlayer(player, map, in, dt)} :
           /\ player' = p2
           /\ game_over' = EndgameFlag(p2, map, game_over)
    /\ ticks' = ticks + 1
    /\ last' = "update"
    /\ visible_sprite_count' = 0
    /\ UNCHANGED <<sortVars, loopVars, loadVars, walkVars>>
    /\ UNCHANGED <<map, hits, z_buffer, visible_sprites, qsort_ties, probe,
                   seen, pending>>

\* rc_update as one of at most n calls
rc_update_within(in, dt, n) ==
    /\ ticks < n
    /\ \E p2 \in {UpdatePlayer(player, map, in, dt)} :
           /\ player' = p2
           /\ game_over' = EndgameFlag(p2, map, game_over)
    /\ ticks' = ticks + 1
    /\ last' = "update"
    /\ UNCHANGED <<sortVars, loopVars, loadVars, walkVars>>
    /\ UNCHANGED <<map, hits, z_buffer, visible_sprites, visible_sprite_count,
                   qsort_ties, probe, seen, pending>>

rc_update(in, dt) == rc_update_within(in, dt, MaxTicks)

(***************************************************************************)
(* rc_cast                                                                 *)
(***************************************************************************)
\* the model's screen is 2*HalfScreenW columns wide (800 in game_globals.h),
\* so that the centre column SCREEN_W/2 has cam_x = 0 as in the program
HalfScreenW == 2
SCREEN_W == 2 * HalfScreenW

\* capacity of visible_sprites in the model (256 in the program)
MAX_VISIBLE_SPRITES == 2

\* 1e30f: above every distance the grid can produce
HUGE == 2000000000

Columns == 0 .. SCREEN_W - 1
Slots   == 0 .. MAX_VISIBLE_SPRITES - 1

InBounds(m, cx, cy) == cx >= 0 /\ cy >= 0 /\ cx < m.w /\ cy < m.h

\* float inv_det = 1.0f / (plane_x * dir_y - dir_x * plane_y);
InvDet(p) == Quot(SCALE, Mul(p.plane_x, p.dir_y) - Mul(p.dir_x, p.plane_y))

\* pd = inv_det * (-plane_y * sx + plane_x * sy) for the sprite at the
\* centre of cell (cx, cy)
SpritePerpDist(p, cx, cy) ==
    LET sx == cx * SCALE + SCALE \div 2 - p.x
        sy == cy * SCALE + SCALE \div 2 - p.y
    IN  Mul(InvDet(p), Mul(-p.plane_y, sx) + Mul(p.plane_x, sy))

\* variant: the cell is not marked in seen[][]
CollectSprite_NoMark(cs, p, m, cx, cy) ==
    LET pd == SpritePerpDist(p, cx, cy)
    IN  IF pd > 0 /\ cs.cnt < MAX_VISIBLE_SPRITES
        THEN [cs EXCEPT
                !.vs[cs.cnt] = [x          |-> cx * SCALE + SCALE \div 2,
                                y          |-> cy * SCALE + SCALE \div 2,
                                perp_dist  |-> pd,
                                texture_id |-> m.sprites[cy][cx] - 1],
                !.cnt = cs.cnt + 1]
        ELSE cs

\* variant: the capacity of visible_sprites is not tested
CollectSprite_NoCapacityCheck(cs, p, m, cx, cy) ==
    LET pd == SpritePerpDist(p, cx, cy)
        marked == [cs EXCEPT !.seen = cs.seen \cup {<<cx, cy>>}]
    IN  IF pd > 0
        THEN [marked EXCEPT
                !.vs[cs.cnt] = [x          |-> cx * SCALE + SCALE \div 2,
                                y          |-> cy * SCALE + SCALE \div 2,
                                perp_dist  |-> pd,
                                texture_id |-> m.sprites[cy][cx] - 1],
                !.cnt = cs.cnt + 1]
        ELSE marked

\* variant: the sign of pd is not tested
CollectSprite_NoFrontTest(cs, p, m, cx, cy) ==
    LET pd == SpritePerpDist(p, cx, cy)
        marked == [cs EXCEPT !.seen = cs.seen \cup {<<cx, cy>>}]
    IN  IF cs.cnt < MAX_VISIBLE_SPRITES
        THEN [marked EXCEPT
                !.vs[cs.cnt] = [x          |-> cx * SCALE + SCALE \div 2,
                                y          |-> cy * SCALE + SCALE \div 2,
                                perp_dist  |-> pd,
                                texture_id |-> m.sprites[cy][cx] - 1],
                !.cnt = cs.cnt + 1]
        ELSE marked

\* mark cell (cx, cy) seen and append its sprite when it is in front of the
\* camera and the list has room.  cs = [hits, z, vs, cnt, seen]
CollectSprite(cs, p, m, cx, cy) ==
    LET pd == SpritePerpDist(p, cx, cy)
        marked == [cs EXCEPT !.seen = cs.seen \cup {<<cx, cy>>}]
    IN  IF pd > 0 /\ cs.cnt < MAX_VISIBLE_SPRITES
        THEN [marked EXCEPT
                !.vs[cs.cnt] = [x          |-> cx * SCALE + SCALE \div 2,
                                y          |-> cy * SCALE + SCALE \div 2,
                                perp_dist  |-> pd,
                                texture_id |-> m.sprites[cy][cx] - 1],
                !.cnt = cs.cnt + 1]
        ELSE marked

\* the player's own start cell is checked before the column loop
CollectStartCell(cs, p, m) ==
    LET cx == Trunc(p.x)
        cy == Trunc(p.y)
    IN  IF InBounds(m, cx, cy) /\ m.sprites[cy][cx] # SPRITE_EMPTY
        THEN CollectSprite(cs, p, m, cx, cy)
        ELSE cs

\* cam_x = 2.0f * x / (float)SCREEN_W - 1.0f
CamX(x) == Div(2 * x * SCALE, SCREEN_W) - SCALE

\* delta = (ray == 0) ? 1e30f : fabsf(1.0f / ray)
DeltaDist(ray) == IF ray = 0 THEN HUGE ELSE Abs(Quot(SCALE, ray))

\* frac * delta, where 1e30f absorbs every non-zero fraction
TimesDelta(frac, delta) ==
    IF delta = HUGE
    THEN (IF frac = 0 THEN 0 ELSE IF frac > 0 THEN HUGE ELSE -HUGE)
    ELSE Mul(frac, delta)

\* side += delta
PlusDelta(side, delta) == IF delta = HUGE THEN HUGE ELSE side + delta

\* variant: the first boundary distance is measured from the cell's low
\* edge whatever the sign of the ray component
RaySetup_LowEdgeOnly(p, x) ==
    LET cam_x    == CamX(x)
        ray_dx   == p.dir_x + Mul(p.plane_x, cam_x)
        ray_dy   == p.dir_y + Mul(p.plane_y, cam_x)
        map_x    == Trunc(p.x)
        map_y    == Trunc(p.y)
        delta_dx == DeltaDist(ray_dx)
        delta_dy == DeltaDist(ray_dy)
    IN  [ray_dx |-> ray_dx, ray_dy |-> ray_dy,
         delta_dx |-> delta_dx, delta_dy |-> delta_dy,
         step_x |-> IF ray_dx < 0 THEN -1 ELSE 1,
         step_y |-> IF ray_dy < 0 THEN -1 ELSE 1,
         map_x |-> map_x, map_y |-> map_y,
         side_dx |-> TimesDelta(p.x - map_x * SCALE, delta_dx),
         side_dy |-> TimesDelta(p.y - map_y * SCALE, delta_dy),
         side |-> 0]

\* the ray of column x and the DDA set-up (lines 151-189)
RaySetup(p, x) ==
    LET cam_x    == CamX(x)
        ray_dx   == p.dir_x + Mul(p.plane_x, cam_x)
        ray_dy   == p.dir_y + Mul(p.plane_y, cam_x)
        map_x    == Trunc(p.x)
        map_y    == Trunc(p.y)
        delta_dx == DeltaDist(ray_dx)
        delta_dy == DeltaDist(ray_dy)
    IN  [ray_dx |-> ray_dx, ray_dy |-> ray_dy,
         delta_dx |-> delta_dx, delta_dy |-> delta_dy,
         step_x |-> IF ray_dx < 0 THEN -1 ELSE 1,
         step_y |-> IF ray_dy < 0 THEN -1 ELSE 1,
         map_x |-> map_x, map_y |-> map_y,
         side_dx |-> IF ray_dx < 0
                     THEN TimesDelta(p.x - map_x * SCALE, delta_dx)
                     ELSE TimesDelta(map_x * SCALE + SCALE - p.x, delta_dx),
         side_dy |-> IF ray_dy < 0
                     THEN TimesDelta(p.y - map_y * SCALE, delta_dy)
                     ELSE TimesDelta(map_y * SCALE + SCALE - p.y, delta_dy),
         side |-> 0]

\* variant: the step sign is ignored, both axes only ever step by +1
DDAStep_IgnoresSign(r) ==
    IF r.side_dx < r.side_dy
    THEN [r EXCEPT !.side_dx = PlusDelta(r.side_dx, r.delta_dx),
                   !.map_x = r.map_x + 1,
                   !.side = 0]
    ELSE [r EXCEPT !.side_dy = PlusDelta(r.side_dy, r.delta_dy),
                   !.map_y = r.map_y + 1,
                   !.side = 1]

\* one advance of the DDA: the axis with the nearer boundary
DDAStep(r) ==
    IF r.side_dx < r.side_dy
    THEN [r EXCEPT !.side_dx = PlusDelta(r.side_dx, r.delta_dx),
                   !.map_x = r.map_x + r.step_x,
                   !.side = 0]
    ELSE [r EXCEPT !.side_dy = PlusDelta(r.side_dy, r.delta_dy),
                   !.map_y = r.map_y + r.step_y,
                   !.side = 1]

\* out of bounds or a wall tile ends the loop
IsHit(m, r) ==
    \/ ~InBounds(m, r.map_x, r.map_y)
    \/ m.tiles[r.map_y][r.map_x] > TILE_FLOOR

\* variant: the sprite test comes before the wall test, so that a marker
\* on the wall tile that ends the ray is collected too
RECURSIVE DDALoop_CollectsOnWall(_, _, _, _)
DDALoop_CollectsOnWall(p, m, r, cs) ==
    LET r1 == DDAStep(r)
        cs1 == IF /\ InBounds(m, r1.map_x, r1.map_y)
                  /\ <<r1.map_x, r1.map_y>> \notin cs.seen
                  /\ m.sprites[r1.map_y][r1.map_x] # SPRITE_EMPTY
               THEN CollectSprite(cs, p, m, r1.map_x, r1.map_y)
               ELSE cs
    IN  IF IsHit(m, r1)
        THEN [ray |-> r1, cs |-> cs1]
        ELSE DDALoop_CollectsOnWall(p, m, r1, cs1)

\* while (!hit) { step; test; collect }: returns [ray, cs] at the hit
RECURSIVE DDALoop(_, _, _, _)
DDALoop(p, m, r, cs) ==
    LET r1 == DDAStep(r)
    IN  IF IsHit(m, r1)
        THEN [ray |-> r1, cs |-> cs]
        ELSE IF <<r1.map_x, r1.map_y>> \notin cs.seen
                /\ m.sprites[r1.map_y][r1.map_x] # SPRITE_EMPTY
             THEN DDALoop(p, m, r1, CollectSprite(cs, p, m, r1.map_x, r1.map_y))
             ELSE DDALoop(p, m, r1, cs)

\* variant: no clamp
PerpDist_NoClamp(p, r) ==
    IF r.side = 0
    THEN Quot(r.map_x * SCALE - p.x + (1 - r.step_x) * (SCALE \div 2), r.ray_dx)
    ELSE Quot(r.map_y * SCALE - p.y + (1 - r.step_y) * (SCALE \div 2), r.ray_dy)

\* variant: the struck face is always taken to be the cell's low edge
PerpDist_NoEdgeCorrection(p, r) ==
    LET perp == IF r.side = 0
                THEN Quot(r.map_x * SCALE - p.x, r.ray_dx)
                ELSE Quot(r.map_y * SCALE - p.y, r.ray_dy)
    IN  IF perp < 1 THEN 1 ELSE perp

\* perpendicular distance of the hit, clamped to 0.001
PerpDist(p, r) ==
    LET perp == IF r.side = 0
                THEN Quot(r.map_x * SCALE - p.x
                            + (1 - r.step_x) * (SCALE \div 2), r.ray_dx)
                ELSE Quot(r.map_y * SCALE - p.y
                            + (1 - r.step_y) * (SCALE \div 2), r.ray_dy)
    IN  IF perp < 1 THEN 1 ELSE perp

\* fractional position along the struck face
WallX(p, r, perp) ==
    LET wall_x == IF r.side = 0
                  THEN p.y + Mul(perp, r.ray_dy)
                  ELSE p.x + Mul(perp, r.ray_dx)
    IN  wall_x - Floorf(wall_x)

\* variant: the tile code is stored without the offset
TileType_NoOffset(m, r) ==
    IF InBounds(m, r.map_x, r.map_y) THEN m.tiles[r.map_y][r.map_x] ELSE 0

\* texture index of the terminating cell, 0 when out of bounds
TileType(m, r) ==
    LET tile == IF InBounds(m, r.map_x, r.map_y)
                THEN m.tiles[r.map_y][r.map_x] ELSE 0
    IN  IF tile > 0 THEN tile - 1 ELSE 0

\* the hit record of a terminated ray
HitRecord(p, m, r) ==
    LET perp == PerpDist(p, r)
    IN  [wall_dist |-> perp,
         wall_x    |-> WallX(p, r, perp),
         side      |-> r.side,
         tile_type |-> TileType(m, r)]

\* variant: a cell another ray has marked in seen[][] stops the ray
CastColumn_StopsAtSeen(p, m, x, cs) ==
    LET blocked == [m EXCEPT !.tiles =
                       [r \in 0 .. m.h - 1 |-> [c \in 0 .. m.w - 1 |->
                           IF <<c, r>> \in cs.seen /\ m.tiles[r][c] = TILE_FLOOR
                           THEN 1 ELSE m.tiles[r][c]]]]
        end == DDALoop(p, blocked, RaySetup(p, x), cs)
        hit == HitRecord(p, blocked, end.ray)
    IN  [end.cs EXCEPT !.hits[x] = hit, !.z[x] = hit.wall_dist]

\* one iteration of the column loop: cast, store hits[x] and z_buffer[x]
CastColumn(p, m, x, cs) ==
    LET end == DDALoop(p, m, RaySetup(p, x), cs)
        hit == HitRecord(p, m, end.ray)
    IN  [end.cs EXCEPT !.hits[x] = hit, !.z[x] = hit.wall_dist]

\* for (int x = 0; x < SCREEN_W; x++)
RECURSIVE ColumnLoop(_, _, _, _)
RECURSIVE ColumnLoop_StopsEarly(_, _, _, _)

\* variant: the loop stops one column early
ColumnLoop_StopsEarly(p, m, x, cs) ==
    IF x < SCREEN_W - 1
    THEN ColumnLoop_StopsEarly(p, m, x + 1, CastColumn(p, m, x, cs))
    ELSE cs

ColumnLoop(p, m, x, cs) ==
    IF x < SCREEN_W
    THEN ColumnLoop(p, m, x + 1, CastColumn(p, m, x, cs))
    ELSE cs

\* variant: the comparator orders nearest first
sprite_cmp_desc_Ascending(a, b) ==
    IF a.perp_dist < b.perp_dist THEN -1
    ELSE IF a.perp_dist > b.perp_dist THEN 1
    ELSE 0

\* sprite_cmp_desc(a, b) < 0, = 0, > 0
sprite_cmp_desc(a, b) ==
    IF a.perp_dist > b.perp_dist THEN -1
    ELSE IF a.perp_dist < b.perp_dist THEN 1
    ELSE 0

\* qsort places e into an already ordered sequence; the C library decides
\* where an element goes among those that compare equal
RECURSIVE QsortInsert(_, _, _)
QsortInsert(sorted, e, ties) ==
    IF sorted = <<>> THEN <<e>>
    ELSE LET c == sprite_cmp_desc(e, Head(sorted))
         IN  IF c < 0 \/ (c = 0 /\ ties = "first")
             THEN <<e>> \o sorted
             ELSE <<Head(sorted)>> \o QsortInsert(Tail(sorted), e, ties)

RECURSIVE Qsort(_, _)
Qsort(seq, ties) ==
    IF seq = <<>> THEN <<>>
    ELSE QsortInsert(Qsort(SubSeq(seq, 1, Len(seq) - 1), ties),
                     seq[Len(seq)], ties)

\* if (count > 1) qsort(visible_sprites, count, sizeof(Sprite), sprite_cmp_desc)
sort_visible_sprites(vs, cnt, ties) ==
    IF cnt > 1
    THEN LET sorted == Qsort([i \in 1 .. cnt |-> vs[i - 1]], ties)
         IN  [i \in Slots |-> IF i < cnt THEN sorted[i + 1] ELSE vs[i]]
    ELSE vs

\* variant: visible_sprite_count is not reset on entry
CastCollect_CountNotReset(p, m, hs, zb, vs, cnt) ==
    ColumnLoop(p, m, 0,
        CollectStartCell([hits |-> hs, z |-> zb, vs |-> vs, cnt |-> cnt,
                          seen |-> {}], p, m))

\* the start-cell check and the column loop, before sorting.  On entry
\* visible_sprite_count is reset to 0 and seen[][] is zeroed; the arrays
\* hs, zb, vs and the old count are what the caller's GameState holds
CastCollect(p, m, hs, zb, vs, cnt) ==
    ColumnLoop(p, m, 0,
        CollectStartCell([hits |-> hs, z |-> zb, vs |-> vs, cnt |-> 0,
                          seen |-> {}], p, m))

rc_cast ==
    /\ \E cs \in {CastCollect(player, map, hits, z_buffer, visible_sprites,
                                visible_sprite_count)} :
           /\ hits' = cs.hits
           /\ z_buffer' = cs.z
           /\ visible_sprite_count' = cs.cnt
           /\ visible_sprites' = sort_visible_sprites(cs.vs, cs.cnt, qsort_ties)
    /\ last' = "cast"
    /\ UNCHANGED <<sortVars, loopVars, loadVars, walkVars>>
    /\ UNCHANGED <<map, player, game_over, qsort_ties, ticks, probe, seen,
                   pending>>

(***************************************************************************)
(* sprites_sort (sprites.c)                                                *)
(***************************************************************************)
\* capacity of gs->sprites in the model (64 in the program)
MAX_SPRITES == 3

SpriteIdx == 0 .. MAX_SPRITES - 1

\* float dx = sprites[i].x - px, dy = sprites[i].y - py; dx*dx + dy*dy
DistSq(sp, px, py) ==
    LET dx == sp.x - px
        dy == sp.y - py
    IN  Mul(dx, dx) + Mul(dy, dy)

\* variant: entries at the same distance as the key are shifted too
RECURSIVE ShiftNearer_ShiftsEqual(_, _, _, _, _)
ShiftNearer_ShiftsEqual(order, dist_sq, j, key_idx, key_dist) ==
    IF j >= 0 /\ dist_sq[order[j]] <= key_dist
    THEN ShiftNearer_ShiftsEqual([order EXCEPT ![j + 1] = order[j]], dist_sq,
                                 j - 1, key_idx, key_dist)
    ELSE [order EXCEPT ![j + 1] = key_idx]

\* while (j >= 0 && dist_sq[sorted_order[j]] < key_dist) { shift; j--; }
\* sorted_order[j + 1] = key_idx;
RECURSIVE ShiftNearer(_, _, _, _, _)
ShiftNearer(order, dist_sq, j, key_idx, key_dist) ==
    IF j >= 0 /\ dist_sq[order[j]] < key_dist
    THEN ShiftNearer([order EXCEPT ![j + 1] = order[j]], dist_sq,
                     j - 1, key_idx, key_dist)
    ELSE [order EXCEPT ![j + 1] = key_idx]

\* for (int i = 1; i < n; i++): insert sorted_order[i] into sorted_order[0 .. i)
RECURSIVE InsertionSort(_, _, _, _)
InsertionSort(order, dist_sq, i, n) ==
    IF i < n
    THEN InsertionSort(ShiftNearer(order, dist_sq, i - 1, order[i],
                                   dist_sq[order[i]]),
                       dist_sq, i + 1, n)
    ELSE order

\* the return value and the caller's array after sprites_sort; order is the
\* array as the caller passed it
SortResult(sps, count, p, order) ==
    IF count <= 0
    THEN [n |-> 0, order |-> order]
    ELSE LET n0      == count
             n       == IF n0 > MAX_SPRITES THEN MAX_SPRITES ELSE n0
             dist_sq == [i \in 0 .. n - 1 |-> DistSq(sps[i], p.x, p.y)]
             initial == [i \in SpriteIdx |-> IF i < n THEN i ELSE order[i]]
         IN  [n |-> n, order |-> InsertionSort(initial, dist_sq, 1, n)]

sprites_sort ==
    /\ last = "init"
    /\ \E res \in {SortResult(sprites, sprite_count, player, sorted_order)} :
           /\ sort_n' = res.n
           /\ sorted_order' = res.order
    /\ last' = "sprites_sort"
    /\ UNCHANGED <<map, player, game_over, hits, z_buffer, visible_sprites,
                   visible_sprite_count, qsort_ties, ticks, probe, seen,
                   pending, sprites, sprite_count>>
    /\ UNCHANGED <<loopVars, loadVars, walkVars>>

(***************************************************************************)
(* Maps and initial states                                                 *)
(***************************************************************************)
\* rows of a plane, top row first, as the 0-based grid plane[row][col]
Grid(rows) ==
    [r \in 0 .. Len(rows) - 1 |->
        [c \in 0 .. Len(rows[1]) - 1 |-> rows[r + 1][c + 1]]]

\* a walled 5x5 room with a pillar; spawn (info 2), end trigger (info 5),
\* three sprites on floor and one sprite marker on a wall tile
BoxMap ==
    [w |-> 5, h |-> 5,
     tiles   |-> Grid(<< <<1, 1, 1, 1, 1>>,
                         <<1, 0, 0, 0, 1>>,
                         <<1, 0, 3, 0, 2>>,
                         <<1, 0, 0, 0, 1>>,
                         <<1, 1, 1, 1, 1>> >>),
     info    |-> Grid(<< <<0, 0, 0, 0, 0>>,
                         <<0, 2, 0, 5, 0>>,
                         <<0, 0, 0, 0, 0>>,
                         <<0, 0, 0, 0, 0>>,
                         <<0, 0, 0, 0, 0>> >>),
     sprites |-> Grid(<< <<0, 0, 0, 0, 0>>,
                         <<0, 0, 1, 0, 0>>,
                         <<0, 0, 0, 0, 1>>,
                         <<0, 1, 0, 2, 0>>,
                         <<0, 0, 0, 0, 0>> >>)]

\* a 4x3 map without border walls: row 0 and column 0 are floor
OpenMap ==
    [w |-> 4, h |-> 3,
     tiles   |-> Grid(<< <<0, 0, 0, 0>>,
                         <<0, 0, 0, 0>>,
                         <<0, 0, 2, 1>> >>),
     info    |-> Grid(<< <<0, 5, 0, 0>>,
                         <<0, 2, 0, 0>>,
                         <<0, 0, 0, 0>> >>),
     sprites |-> Grid(<< <<1, 0, 1, 2>>,
                         <<0, 0, 2, 1>>,
                         <<0, 0, 0, 0>> >>)]

Maps == {BoxMap, OpenMap}

\* tanf(half_fov) for FOV_DEG = 60
PLANE_LEN == 577

\* a player at (x, y) facing (dx, dy), camera plane perpendicular to it
PlayerAt(x, y, dx, dy) ==
    [x |-> x, y |-> y, dir_x |-> dx, dir_y |-> dy,
     plane_x |-> Mul(-dy, PLANE_LEN), plane_y |-> Mul(dx, PLANE_LEN)]

\* start positions: cell centres (spawn cells), the centre of a sprite
\* cell, points before, inside and at the edge of the trigger cell, a point
\* exactly on a cell boundary against a wall
BoxStarts  == {<<1500, 1500>>, <<2500, 1500>>, <<2750, 1500>>,
               <<3400, 1400>>, <<1000, 1500>>, <<3500, 3500>>}
OpenStarts == {<<500, 500>>, <<1500, 1500>>, <<2500, 1400>>}

Starts(m) == IF m.w = 5 THEN BoxStarts ELSE OpenStarts

\* facing directions: the four spawn directions and two oblique ones
StartDirs == {<<1000, 0>>, <<-1000, 0>>, <<0, 1000>>, <<0, -1000>>,
              <<600, -800>>, <<-800, 600>>}

\* the player stands in an in-bounds floor cell
InFloorCell(p, m) ==
    /\ p.x >= 0 /\ p.y >= 0 /\ p.x < m.w * SCALE /\ p.y < m.h * SCALE
    /\ m.tiles[p.y \div SCALE][p.x \div SCALE] = TILE_FLOOR

StartPlayers(m) ==
    {p \in {PlayerAt(s[1], s[2], d[1], d[2]) : s \in Starts(m), d \in StartDirs} :
        InFloorCell(p, m)}

\* memset(&gs, 0, sizeof(gs)): the buffers before the first cast
ZeroHit    == [wall_dist |-> 0, wall_x |-> 0, side |-> 0, tile_type |-> 0]
ZeroSprite == [x |-> 0, y |-> 0, perp_dist |-> 0, texture_id |-> 0]

NoProbe == [x |-> 0, y |-> 0, res |-> FALSE]

\* a world sprite (game_globals.h)
WorldSprite(x, y, t) == [x |-> x, y |-> y, texture_id |-> t]

\* memset(&gs, 0, sizeof(gs)): no world sprites; the order array of a
\* caller that has not sorted yet holds an index no sprite has
SortInit ==
    /\ sprites = [i \in SpriteIdx |-> WorldSprite(0, 0, 0)]
    /\ sprite_count = 0
    /\ sorted_order = [i \in SpriteIdx |-> -1]
    /\ sort_n = 0

\* memset(&input, 0, sizeof(input))
ZeroInput == [forward |-> FALSE, back |-> FALSE,
              turn_left |-> FALSE, turn_right |-> FALSE]

\* main before its loop: accum = 0, running = true, no input yet
LoopInit ==
    /\ accum = 0
    /\ input = ZeroInput
    /\ running = TRUE
    /\ updates = 0
    /\ frames = 0
    /\ pc = "top"
    /\ polled = TRUE
    /\ casts = 0
    /\ renders = 0
    /\ end_screen = "none"

\* no map file has been read
NoFile == <<"no such file">>

\* no walk: the float32 position is not in use
WalkInit ==
    /\ fx = 0
    /\ fdt = 0

\* sprites_path == NULL
NoPath == <<"no path">>

LoadInit ==
    /\ file = NoFile
    /\ info_file = NoFile
    /\ sprites_file = NoPath
    /\ load_ret = "none"
    /\ cells_written = {}
    /\ oob_write = "no_effect"

Init ==
    /\ map \in Maps
    /\ player \in StartPlayers(map)
    /\ game_over = FALSE
    /\ hits = [x \in Columns |-> ZeroHit]
    /\ z_buffer = [x \in Columns |-> 0]
    /\ visible_sprites = [i \in Slots |-> ZeroSprite]
    /\ visible_sprite_count = 0
    /\ qsort_ties \in {"first", "last"}
    /\ last = "init"
    /\ ticks = 0
    /\ probe = NoProbe
    /\ seen = {}
    /\ pending = {}
    /\ SortInit
    /\ LoopInit
    /\ WalkInit
    /\ LoadInit

Next ==
    \/ \E in \in Inputs, dt \in DTs : rc_update(in, dt)
    \/ rc_cast

Spec == Init /\ [][Next]_vars

\* rc_cast for a player anywhere: in a floor cell, in a wall cell, less
\* than one cell and more than one cell outside the map on each side
AnywhereStarts(m) ==
    {<<1500, 1500>>, <<500, 500>>, <<-500, 500>>, <<-1500, 500>>,
     <<-1500, 1500>>, <<500, -1500>>, <<-1500, -1500>>, <<-2500, 500>>,
     <<m.w * SCALE + 500, 1500>>, <<1500, m.h * SCALE + 1500>>}

InitAnywhere ==
    /\ map \in Maps
    /\ player \in {PlayerAt(s[1], s[2], d[1], d[2]) :
                       s \in AnywhereStarts(map), d \in StartDirs}
    /\ game_over = FALSE
    /\ hits = [x \in Columns |-> ZeroHit]
    /\ z_buffer = [x \in Columns |-> 0]
    /\ visible_sprites = [i \in Slots |-> ZeroSprite]
    /\ visible_sprite_count = 0
    /\ qsort_ties = "first"
    /\ last = "init"
    /\ ticks = 0
    /\ probe = NoProbe
    /\ seen = {}
    /\ pending = {}
    /\ SortInit
    /\ LoopInit
    /\ WalkInit
    /\ LoadInit

NextAnywhere == rc_cast

SpecAnywhere == InitAnywhere /\ [][NextAnywhere]_vars

\* ticks that go on after the trigger was reached: starts next to a
\* trigger, one more rc_update call than elsewhere, rc_cast at any point
OverStarts ==
    {PlayerAt(s[1], s[2], d[1], d[2]) :
        s \in {<<3400, 1400>>, <<2750, 1500>>}, d \in StartDirs}

OverInputs ==
    {in \in Inputs : /\ ~in.turn_right
                      /\ in.turn_left => in.forward
                      /\ ~(in.forward /\ in.back)}

InitOver ==
    /\ map = BoxMap
    /\ player \in OverStarts
    /\ game_over = FALSE
    /\ hits = [x \in Columns |-> ZeroHit]
    /\ z_buffer = [x \in Columns |-> 0]
    /\ visible_sprites = [i \in Slots |-> ZeroSprite]
    /\ visible_sprite_count = 0
    /\ qsort_ties = "first"
    /\ last = "init"
    /\ ticks = 0
    /\ probe = NoProbe
    /\ seen = {}
    /\ pending = {}
    /\ SortInit
    /\ LoopInit
    /\ WalkInit
    /\ LoadInit

NextOver ==
    \/ \E in \in OverInputs, dt \in DTs : rc_update_within(in, dt, MaxTicks + 1)
    \/ rc_cast

SpecOver == InitOver /\ [][NextOver]_vars

\* sequences of rc_update calls alone (the physics tick without a renderer)
InitUpdate == Init /\ qsort_ties = "first"

NextUpdate == \E in \in Inputs, dt \in DTs : rc_update(in, dt)

SpecUpdate == InitUpdate /\ [][NextUpdate]_vars

(***************************************************************************)
(* rc_cast with its column loop run in any order: the reset and the        *)
(* start-cell check, then one column at a time, then the sort              *)
(***************************************************************************)
\* lines 118-146: reset the list and seen[][], check the player's own cell
rc_cast_begin ==
    /\ pending = {}
    /\ last \in {"init", "cast"}
    /\ \E cs \in {CollectStartCell([hits |-> hits, z |-> z_buffer,
                                      vs |-> visible_sprites, cnt |-> 0,
                                      seen |-> {}], player, map)} :
           /\ visible_sprites' = cs.vs
           /\ visible_sprite_count' = cs.cnt
           /\ seen' = cs.seen
    /\ pending' = Columns
    /\ last' = "cast_begin"
    /\ UNCHANGED <<sortVars, loopVars, loadVars, walkVars>>
    /\ UNCHANGED <<map, player, game_over, hits, z_buffer, qsort_ties, ticks,
                   probe>>

\* lines 149-270: the loop body for one column x that has not run yet
rc_cast_column(x) ==
    /\ x \in pending
    /\ \E cs \in {CastColumn(player, map, x,
                              [hits |-> hits, z |-> z_buffer,
                               vs |-> visible_sprites,
                               cnt |-> visible_sprite_count,
                               seen |-> seen])} :
           /\ hits' = cs.hits
           /\ z_buffer' = cs.z
           /\ visible_sprites' = cs.vs
           /\ visible_sprite_count' = cs.cnt
           /\ seen' = cs.seen
    /\ pending' = pending \ {x}
    /\ last' = "cast_column"
    /\ UNCHANGED <<sortVars, loopVars, loadVars, walkVars>>
    /\ UNCHANGED <<map, player, game_over, qsort_ties, ticks, probe>>

\* line 274: every column has run; sort the list
rc_cast_end ==
    /\ pending = {}
    /\ last = "cast_column"
    /\ visible_sprites' = sort_visible_sprites(visible_sprites,
                                               visible_sprite_count, qsort_ties)
    /\ last' = "cast"
    /\ UNCHANGED <<sortVars, loopVars, loadVars, walkVars>>
    /\ UNCHANGED <<map, player, game_over, hits, z_buffer, visible_sprite_count,
                   qsort_ties, ticks, probe, seen, pending>>

NextColumns ==
    \/ rc_cast_begin
    \/ \E x \in Columns : rc_cast_column(x)
    \/ rc_cast_end

SpecColumns == Init /\ [][NextColumns]_vars

(***************************************************************************)
(* main: the fixed-step loop.  accum, frame and DT are C floats; the model *)
(* keeps them as integers in units of 2^-29 s (the spacing of floats in    *)
(* [1/64, 1/32), where DT lies) and rounds every sum and difference to a   *)
(* 24-bit significand, ties to even, as float addition does.               *)
(***************************************************************************)
TICK_RATE == 60

\* DT = 1.0f / TICK_RATE: the float nearest to 1/60 s, 8947849 * 2^-29
DT == 8947849

\* MAX_FRAME = 0.25f = 2^27 * 2^-29
MAX_FRAME == 134217728

\* the tick length rc_update receives, at the core model's resolution
DtTick == Div(SCALE, TICK_RATE)

\* the spacing of floats around v >= 0, in units of 2^-29 (1 below 2^24)
RECURSIVE Ulp(_)
Ulp(v) == IF v < 16777216 THEN 1 ELSE 2 * Ulp(v \div 2)

\* v >= 0 rounded to the nearest float, ties to the even significand
RoundFloat(v) ==
    LET g == Ulp(v)
        q == v \div g
        r == v % g
    IN  IF 2 * r < g THEN q * g
        ELSE IF 2 * r > g THEN (q + 1) * g
        ELSE (IF q % 2 = 0 THEN q ELSE q + 1) * g

\* iterations of the main loop per behaviour
MaxFrames == 2

\* measured frame times (float)(now - prev): zero, one unit, a quarter
\* tick, one unit short of DT, DT, 0.25 s, and a 2 s stall
FrameTimes == {0, 1, 4473925, 8947848, 8947849, 134217728, 1073741824}

\* what platform_poll_input reports in a frame
PolledInputs == {ZeroInput,
                 [forward |-> TRUE, back |-> FALSE,
                  turn_left |-> FALSE, turn_right |-> FALSE],
                 [forward |-> TRUE, back |-> FALSE,
                  turn_left |-> FALSE, turn_right |-> TRUE]}

\* variant: the frame time is not clamped
ClampFrame_None(frame) == frame

\* if (frame > MAX_FRAME) frame = MAX_FRAME;
ClampFrame(frame) == IF frame > MAX_FRAME THEN MAX_FRAME ELSE frame

\* lines 67-76: measure and clamp the frame time, add it to accum, poll
main_frame(frame, in, quit) ==
    /\ pc = "top"
    /\ running
    /\ frames < MaxFrames
    /\ accum' = RoundFloat(accum + ClampFrame(frame))
    /\ input' = in
    /\ running' = ~quit
    /\ polled' = ~quit
    /\ updates' = 0
    /\ casts' = 0
    /\ renders' = 0
    /\ pc' = "update"
    /\ UNCHANGED <<coreVars, sortVars, loadVars, walkVars, frames, end_screen>>

\* lines 79-82: while (accum >= DT) { rc_update(...); accum -= DT; }
main_update ==
    /\ pc = "update"
    /\ accum >= DT
    /\ \E p2 \in {UpdatePlayer(player, map, input, DtTick)} :
           /\ player' = p2
           /\ game_over' = EndgameFlag(p2, map, game_over)
    /\ ticks' = ticks + 1
    /\ last' = "update"
    /\ accum' = RoundFloat(accum - DT)
    /\ updates' = updates + 1
    /\ UNCHANGED <<map, hits, z_buffer, visible_sprites, visible_sprite_count,
                   qsort_ties, probe, seen, pending>>
    /\ UNCHANGED <<sortVars, loadVars, walkVars, input, running, frames, pc,
                   polled, casts, renders, end_screen>>

\* lines 85-89: the inner loop is left; rc_cast, then the game-over test
main_render ==
    /\ pc = "update"
    /\ ~(accum >= DT)
    /\ \E cs \in {CastCollect(player, map, hits, z_buffer, visible_sprites,
                                visible_sprite_count)} :
           /\ hits' = cs.hits
           /\ z_buffer' = cs.z
           /\ visible_sprite_count' = cs.cnt
           /\ visible_sprites' = sort_visible_sprites(cs.vs, cs.cnt, qsort_ties)
    /\ last' = "cast"
    /\ casts' = casts + 1
    /\ renders' = renders + 1
    /\ running' = (IF game_over THEN FALSE ELSE running)
    /\ frames' = frames + 1
    /\ pc' = "top"
    /\ UNCHANGED <<map, player, game_over, qsort_ties, ticks, probe, seen,
                   pending>>
    /\ UNCHANGED <<sortVars, loadVars, walkVars, accum, input, updates, polled,
                   end_screen>>

\* variant: the end screen is shown on every exit
EndScreen_Always(over) == "shown"

\* lines 93-94: if (gs.game_over) platform_render_end_screen()
EndScreen(over) == IF over THEN "shown" ELSE "not shown"

\* lines 66, 93: while (running) is left; the end screen, if game_over
main_exit ==
    /\ pc = "top"
    /\ ~running
    /\ end_screen' = EndScreen(game_over)
    /\ pc' = IF game_over THEN "end_wait" ELSE "done"
    /\ UNCHANGED <<coreVars, sortVars, loadVars, walkVars>>
    /\ UNCHANGED <<accum, input, running, updates, frames, polled, casts,
                   renders>>

\* lines 95-98: while (waiting) waiting = platform_poll_end_input()
main_end_wait(waiting) ==
    /\ pc = "end_wait"
    /\ pc' = IF waiting THEN "end_wait" ELSE "done"
    /\ UNCHANGED <<coreVars, sortVars, loadVars, walkVars>>
    /\ UNCHANGED <<accum, input, running, updates, frames, polled, casts,
                   renders, end_screen>>

\* the game as main starts it: the map loaded, the player at the spawn
\* cell facing east
InitLoop ==
    /\ map = BoxMap
    /\ player \in {PlayerAt(1500, 1500, 1000, 0), PlayerAt(3300, 1500, 1000, 0)}
    /\ game_over = FALSE
    /\ hits = [x \in Columns |-> ZeroHit]
    /\ z_buffer = [x \in Columns |-> 0]
    /\ visible_sprites = [i \in Slots |-> ZeroSprite]
    /\ visible_sprite_count = 0
    /\ qsort_ties = "first"
    /\ last = "init"
    /\ ticks = 0
    /\ probe = NoProbe
    /\ seen = {}
    /\ pending = {}
    /\ SortInit
    /\ LoopInit
    /\ WalkInit
    /\ LoadInit

NextLoop ==
    \/ \E frame \in FrameTimes, in \in PolledInputs, quit \in BOOLEAN :
           main_frame(frame, in, quit)
    \/ main_update
    \/ main_render
    \/ main_exit
    \/ \E waiting \in BOOLEAN : main_end_wait(waiting)

SpecLoop == InitLoop /\ [][NextLoop]_vars

(***************************************************************************)
(* map_load (map_manager_ascii.c): the file is a sequence of characters,   *)
(* read line by line with fgets into char line[MAP_MAX_W + 2]              *)
(***************************************************************************)
\* the grid limits in the model (64 x 64 in the program)
MAP_MAX_W == 5
MAP_MAX_H == 5

CELL_FLOOR == 0
CELL_EXIT  == -1

DigitChars == <<"0", "1", "2", "3", "4", "5", "6", "7", "8", "9">>

\* c - '0' for a digit character c
DigitValue(c) == (CHOOSE i \in 1 .. 10 : DigitChars[i] = c) - 1

IsDigit(c) == \E i \in 1 .. 10 : DigitChars[i] = c

\* fgets(line, sizeof(line), fp): at most sizeof(line) - 1 = MAP_MAX_W + 1
\* characters, stopping after a newline; rest is what stays in the stream
Fgets(rest) ==
    LET limit == MAP_MAX_W + 1
        ends  == {i \in 1 .. Len(rest) : rest[i] = "\n"}
        nl    == IF ends = {} THEN 0
                 ELSE CHOOSE i \in ends : \A j \in ends : i <= j
        n     == IF nl # 0 /\ nl <= limit THEN nl
                 ELSE IF Len(rest) < limit THEN Len(rest) ELSE limit
    IN  [line |-> SubSeq(rest, 1, n), rest |-> SubSeq(rest, n + 1, Len(rest))]

\* strip one trailing newline, then one trailing carriage return
StripLine(line) ==
    LET l1 == IF Len(line) > 0 /\ line[Len(line)] = "\n"
              THEN SubSeq(line, 1, Len(line) - 1) ELSE line
        l2 == IF Len(l1) > 0 /\ l1[Len(l1)] = "\r"
              THEN SubSeq(l1, 1, Len(l1) - 1) ELSE l1
    IN  l2

\* map->cells[row][col] = code.  A store at col = MAP_MAX_W is past the end
\* of the row: it lands on the next row's first cell or has no effect on
\* the grid, as oob says
StoreCell(st, row, col, code, oob) ==
    LET noted == [st EXCEPT !.written = @ \cup {<<row, col>>}]
    IN  IF col < MAP_MAX_W
        THEN [noted EXCEPT !.map.tiles[row][col] = code]
        ELSE IF oob = "next_row" /\ row + 1 < MAP_MAX_H
        THEN [noted EXCEPT !.map.tiles[row + 1][col - MAP_MAX_W] = code]
        ELSE noted

\* for (int col = 0; col < len; col++): one character, one cell
RECURSIVE ParseCols(_, _, _, _, _)
ParseCols(st, line, row, col, oob) ==
    IF col < Len(line)
    THEN LET c == line[col + 1]
         IN  IF c = "X" \/ c = "#"
             THEN ParseCols(StoreCell(st, row, col, 1, oob),
                            line, row, col + 1, oob)
             ELSE IF IsDigit(c)
             THEN ParseCols(StoreCell(st, row, col, DigitValue(c) + 1, oob),
                            line, row, col + 1, oob)
             ELSE IF c = "P" \/ c = "p"
             THEN ParseCols([StoreCell(st, row, col, CELL_FLOOR, oob) EXCEPT
                                !.player.x = col * SCALE + SCALE \div 2,
                                !.player.y = row * SCALE + SCALE \div 2,
                                !.player_set = TRUE],
                            line, row, col + 1, oob)
             ELSE IF c = "F" \/ c = "f"
             THEN ParseCols(StoreCell(st, row, col, CELL_EXIT, oob),
                            line, row, col + 1, oob)
             ELSE ParseCols(StoreCell(st, row, col, CELL_FLOOR, oob),
                            line, row, col + 1, oob)
    ELSE st

\* while (fgets(line, sizeof(line), fp) && row < MAP_MAX_H) { ... row++; }
\* map->h = row;
RECURSIVE ParseLines(_, _, _, _)
ParseLines(st, rest, row, oob) ==
    IF rest = <<>> \/ ~(row < MAP_MAX_H)
    THEN [st EXCEPT !.map.h = row]
    ELSE LET got  == Fgets(rest)
             line == StripLine(got.line)
             st1  == [st EXCEPT !.map.w = IF Len(line) > @ THEN Len(line) ELSE @]
         IN  ParseLines(ParseCols(st1, line, row, 0, oob), got.rest, row + 1, oob)

\* memset(map, 0, sizeof(*map))
ZeroMap ==
    LET zero == [r \in 0 .. MAP_MAX_H - 1 |-> [c \in 0 .. MAP_MAX_W - 1 |-> 0]]
    IN  [w |-> 0, h |-> 0, tiles |-> zero, info |-> zero, sprites |-> zero]

\* memset(&player, 0, sizeof(player))
ZeroPlayer ==
    [x |-> 0, y |-> 0, dir_x |-> 0, dir_y |-> 0, plane_x |-> 0, plane_y |-> 0]

map_load ==
    /\ load_ret = "none"
    /\ IF file = NoFile
       THEN /\ load_ret' = "false"
            /\ UNCHANGED <<map, player, cells_written>>
       ELSE \E st \in {ParseLines([map |-> ZeroMap, player |-> player,
                                    player_set |-> FALSE, written |-> {}],
                                   file, 0, oob_write)} :
                /\ map' = st.map
                /\ cells_written' = st.written
                /\ IF ~st.player_set
                   THEN /\ player' = st.player
                        /\ load_ret' = "false"
                   ELSE /\ player' = [st.player EXCEPT
                                          !.dir_x = SCALE, !.dir_y = 0,
                                          !.plane_x = 0, !.plane_y = PLANE_LEN]
                        /\ load_ret' = "true"
    /\ last' = "map_load"
    /\ UNCHANGED <<game_over, hits, z_buffer, visible_sprites,
                   visible_sprite_count, qsort_ties, ticks, probe, seen,
                   pending>>
    /\ UNCHANGED <<sortVars, loopVars, walkVars, file, info_file, sprites_file,
                   oob_write>>

\* n copies of the sequence s
RECURSIVE Repeat(_, _)
Repeat(s, n) == IF n = 0 THEN <<>> ELSE s \o Repeat(s, n - 1)

\* lines of a map file: empty, a spawn, walls with an exit, a full-width
\* row, a row one character too long, a row three characters too long
FileLines ==
    {<<>>, <<"P">>, <<"X", "9", "F">>, <<"#", " ", "p">>,
     Repeat(<<"X">>, MAP_MAX_W), Repeat(<<"X">>, MAP_MAX_W + 1),
     Repeat(<<"7">>, MAP_MAX_W + 3)}

\* line terminators: Unix and DOS
LineEnds == {<<"\n">>, <<"\r", "\n">>}

\* map files: k copies of one line, then another line, with or without a
\* terminator after the last line; up to MAP_MAX_H + 2 lines
Files ==
    {Repeat(a \o e, k) \o b \o f :
        a \in FileLines, b \in FileLines, k \in 0 .. MAP_MAX_H + 1,
        e \in LineEnds, f \in {<<>>, <<"\n">>}}

InitLoad ==
    /\ map = ZeroMap
    /\ player = ZeroPlayer
    /\ game_over = FALSE
    /\ hits = [x \in Columns |-> ZeroHit]
    /\ z_buffer = [x \in Columns |-> 0]
    /\ visible_sprites = [i \in Slots |-> ZeroSprite]
    /\ visible_sprite_count = 0
    /\ qsort_ties = "first"
    /\ last = "init"
    /\ ticks = 0
    /\ probe = NoProbe
    /\ seen = {}
    /\ pending = {}
    /\ SortInit
    /\ LoopInit
    /\ WalkInit
    /\ file \in Files \cup {NoFile}
    /\ info_file = NoFile
    /\ sprites_file = NoPath
    /\ load_ret = "none"
    /\ cells_written = {}
    /\ oob_write \in {"next_row", "no_effect"}

NextLoad == map_load

SpecLoad == InitLoad /\ [][NextLoad]_vars

(***************************************************************************)
(* rc_update at float32 resolution: a walk east along a row's centre line  *)
(* with only in->forward set.  p->x is held in fx and dt in fdt, both in   *)
(* units of 2^-27; p->y and the direction (1, 0) stay as in player.        *)
(***************************************************************************)
\* 1.0f in units of 2^-27
FUnit == 134217728

\* MOVE_SPD = 3.0f
MOVE_SPD_F == 3 * FUnit

\* COL_MARGIN = 0.15f = 10066330 * 2^-26
COL_MARGIN_F == 20132660

\* (int)v for a float v >= 0
FloatCell(v) == v \div FUnit

\* dx += p->dir_x * MOVE_SPD * dt with dir_x = 1.0f: one rounded product
WalkDx(dt) == RoundFloat((MOVE_SPD_F \div FUnit) * dt)

\* is_wall(map, p->x + dx + COL_MARGIN, p->y) for dx > 0, each sum rounded
WalkBlocked(m, p, x, dx) ==
    is_wall(m, FloatCell(RoundFloat(RoundFloat(x + dx) + COL_MARGIN_F)) * SCALE,
            p.y)

\* if (!is_wall(...)) p->x += dx
WalkX(m, p, x, dx) ==
    IF WalkBlocked(m, p, x, dx) THEN x ELSE RoundFloat(x + dx)

\* variant: the disc is centred on the cell's corner, centre_x = cx
WalkAtTriggerCentre_NoHalf(m, p, x) ==
    LET cx == FloatCell(x)
        cy == Trunc(p.y)
    IN  /\ cx >= 0 /\ cy >= 0 /\ cx < m.w /\ cy < m.h
        /\ m.info[cy][cx] = INFO_TRIGGER_ENDGAME
        /\ Abs(x - cx * FUnit) <= COL_MARGIN_F

\* the endgame test for a player on the row's centre line (ey = 0).  The
\* float test ex * ex + 0 <= COL_MARGIN * COL_MARGIN is |ex| <= COL_MARGIN:
\* rounding is monotone, and the float next above 0.15f already has a
\* square more than one spacing above that of 0.15f.  ex itself is exact.
WalkAtTriggerCentre(m, p, x) ==
    LET cx == FloatCell(x)
        cy == Trunc(p.y)
    IN  /\ cx >= 0 /\ cy >= 0 /\ cx < m.w /\ cy < m.h
        /\ m.info[cy][cx] = INFO_TRIGGER_ENDGAME
        /\ LET centre_x == cx * FUnit + FUnit \div 2
               ex == x - centre_x
           IN  Abs(ex) <= COL_MARGIN_F

\* one rc_update call of the walk; the caller stops calling at game_over
rc_update_walk ==
    /\ last \in {"init", "walk"}
    /\ ~game_over
    /\ \E nx \in {WalkX(map, player, fx, WalkDx(fdt))} :
           /\ fx' = nx
           /\ game_over' = WalkAtTriggerCentre(map, player, nx)
    /\ last' = "walk"
    /\ UNCHANGED <<map, player, hits, z_buffer, visible_sprites,
                   visible_sprite_count, qsort_ties, ticks, probe, seen,
                   pending, fdt>>
    /\ UNCHANGED <<sortVars, loopVars, loadVars>>

\* a corridor of floor along row 1, eight cells wide, walled at both ends,
\* with the end trigger in column tcol
CorridorMap(tcol) ==
    [w |-> 8, h |-> 3,
     tiles   |-> [r \in 0 .. 2 |-> [c \in 0 .. 7 |->
                     IF r = 1 /\ c \in 1 .. 6 THEN TILE_FLOOR ELSE 1]],
     info    |-> [r \in 0 .. 2 |-> [c \in 0 .. 7 |->
                     IF r = 1 /\ c = tcol THEN INFO_TRIGGER_ENDGAME ELSE 0]],
     sprites |-> [r \in 0 .. 2 |-> [c \in 0 .. 7 |-> SPRITE_EMPTY]]]

\* the column of the end trigger of a corridor
TriggerCol(m) == CHOOSE c \in 0 .. m.w - 1 : m.info[1][c] = INFO_TRIGGER_ENDGAME

\* trigger columns: one with x in [2, 4), one with x in [4, 8)
TriggerCols == {2, 5}

\* dt values (float): 0.0625, 0.08f, the largest with a step one position
\* spacing (2^-19 at x < 64) below 2 * COL_MARGIN, and 0.1f
WalkDts == {8388608, 10737418, 13421688, 13421773}

\* start offsets in the cell before the trigger: the middle, and floats
\* around 0.15
WalkOffsets == {FUnit \div 2} \cup {64 * k : k \in 314570 .. 314573}

InitWalk ==
    /\ map \in {CorridorMap(c) : c \in TriggerCols}
    /\ player = PlayerAt(1500, 1500, 1000, 0)
    /\ game_over = FALSE
    /\ hits = [x \in Columns |-> ZeroHit]
    /\ z_buffer = [x \in Columns |-> 0]
    /\ visible_sprites = [i \in Slots |-> ZeroSprite]
    /\ visible_sprite_count = 0
    /\ qsort_ties = "first"
    /\ last = "init"
    /\ ticks = 0
    /\ probe = NoProbe
    /\ seen = {}
    /\ pending = {}
    /\ SortInit
    /\ LoopInit
    /\ LoadInit
    /\ fx \in {(TriggerCol(map) - 1) * FUnit + o : o \in WalkOffsets}
    /\ fdt \in WalkDts

NextWalk == rc_update_walk

SpecWalk == InitWalk /\ [][NextWalk]_vars

(***************************************************************************)
(* map_load, three-plane version (listing in plan.md): tiles, info and     *)
(* optional sprites files                                                  *)
(***************************************************************************)
INFO_EMPTY          == 0
INFO_SPAWN_PLAYER_N == 1
INFO_SPAWN_PLAYER_E == 2
INFO_SPAWN_PLAYER_S == 3
INFO_SPAWN_PLAYER_W == 4

\* the value a character stores in a plane
PlaneValue(plane, c) ==
    CASE plane = "tiles" ->
            IF c = "X" \/ c = "#" THEN 1
            ELSE IF IsDigit(c) THEN DigitValue(c) + 1
            ELSE TILE_FLOOR
      [] plane = "info" ->
            IF c = "^" THEN INFO_SPAWN_PLAYER_N
            ELSE IF c = ">" THEN INFO_SPAWN_PLAYER_E
            ELSE IF c = "V" THEN INFO_SPAWN_PLAYER_S
            ELSE IF c = "<" THEN INFO_SPAWN_PLAYER_W
            ELSE IF c = "F" \/ c = "f" THEN INFO_TRIGGER_ENDGAME
            ELSE INFO_EMPTY
      [] OTHER ->
            IF IsDigit(c) /\ c # "0" THEN DigitValue(c) ELSE SPRITE_EMPTY

\* map->plane[row][col] = val, with a store at col = MAP_MAX_W past the row
StorePlane(m, plane, row, col, val, oob) ==
    IF col < MAP_MAX_W
    THEN [m EXCEPT ![plane][row][col] = val]
    ELSE IF oob = "next_row" /\ row + 1 < MAP_MAX_H
    THEN [m EXCEPT ![plane][row + 1][col - MAP_MAX_W] = val]
    ELSE m

\* if (val >= INFO_SPAWN_PLAYER_N && val <= INFO_SPAWN_PLAYER_W) { ... }
MarkSpawn(st, row, col, val) ==
    IF val >= INFO_SPAWN_PLAYER_N /\ val <= INFO_SPAWN_PLAYER_W
    THEN [st EXCEPT !.player.x = col * SCALE + SCALE \div 2,
                    !.player.y = row * SCALE + SCALE \div 2,
                    !.spawn_type = val,
                    !.player_set = TRUE]
    ELSE st

\* the column loop of one pass over one line
RECURSIVE PlaneCols(_, _, _, _, _, _)
PlaneCols(st, plane, line, row, col, oob) ==
    IF col < Len(line)
    THEN LET val == PlaneValue(plane, line[col + 1])
             st1 == [st EXCEPT !.map = StorePlane(@, plane, row, col, val, oob)]
             st2 == IF plane = "info" THEN MarkSpawn(st1, row, col, val) ELSE st1
         IN  PlaneCols(st2, plane, line, row, col + 1, oob)
    ELSE st

\* while (fgets(line, sizeof(line), fp) && row < MAP_MAX_H): one pass; the
\* tiles pass also sets map->w and map->h
RECURSIVE PlaneLines(_, _, _, _, _)
PlaneLines(st, plane, rest, row, oob) ==
    IF rest = <<>> \/ ~(row < MAP_MAX_H)
    THEN IF plane = "tiles" THEN [st EXCEPT !.map.h = row] ELSE st
    ELSE LET got  == Fgets(rest)
             line == StripLine(got.line)
             st1  == IF plane = "tiles"
                     THEN [st EXCEPT !.map.w = IF Len(line) > @ THEN Len(line) ELSE @]
                     ELSE st
         IN  PlaneLines(PlaneCols(st1, plane, line, row, 0, oob), plane,
                        got.rest, row + 1, oob)

\* set_player_facing: direction and camera plane from the spawn code
set_player_facing(p, spawn_type) ==
    CASE spawn_type = INFO_SPAWN_PLAYER_N ->
            [p EXCEPT !.dir_x = 0, !.dir_y = -SCALE,
                      !.plane_x = PLANE_LEN, !.plane_y = 0]
      [] spawn_type = INFO_SPAWN_PLAYER_S ->
            [p EXCEPT !.dir_x = 0, !.dir_y = SCALE,
                      !.plane_x = -PLANE_LEN, !.plane_y = 0]
      [] spawn_type = INFO_SPAWN_PLAYER_W ->
            [p EXCEPT !.dir_x = -SCALE, !.dir_y = 0,
                      !.plane_x = 0, !.plane_y = -PLANE_LEN]
      [] OTHER ->
            [p EXCEPT !.dir_x = SCALE, !.dir_y = 0,
                      !.plane_x = 0, !.plane_y = PLANE_LEN]

\* the map, the player and the return value of the three-plane map_load
PlanesResult(p, tiles, info, sprs, oob) ==
    LET st0 == [map |-> ZeroMap, player |-> p, player_set |-> FALSE,
                spawn_type |-> INFO_SPAWN_PLAYER_E]
    IN  IF tiles = NoFile THEN st0 @@ [ret |-> "false"]
        ELSE LET st1 == PlaneLines(st0, "tiles", tiles, 0, oob)
             IN  IF info = NoFile THEN st1 @@ [ret |-> "false"]
                 ELSE LET st2 == PlaneLines(st1, "info", info, 0, oob)
                      IN  IF ~st2.player_set THEN st2 @@ [ret |-> "false"]
                          ELSE LET st3 == [st2 EXCEPT !.player =
                                              set_player_facing(@, st2.spawn_type)]
                               IN  IF sprs = NoPath THEN st3 @@ [ret |-> "true"]
                                   ELSE IF sprs = NoFile THEN st3 @@ [ret |-> "false"]
                                   ELSE PlaneLines(st3, "sprites", sprs, 0, oob)
                                            @@ [ret |-> "true"]

map_load_planes ==
    /\ load_ret = "none"
    /\ \E res \in {PlanesResult(player, file, info_file, sprites_file, oob_write)} :
           /\ map' = res.map
           /\ player' = res.player
           /\ load_ret' = res.ret
    /\ last' = "map_load_planes"
    /\ UNCHANGED <<game_over, hits, z_buffer, visible_sprites,
                   visible_sprite_count, qsort_ties, ticks, probe, seen,
                   pending>>
    /\ UNCHANGED <<sortVars, loopVars, walkVars, file, info_file, sprites_file,
                   cells_written, oob_write>>

\* the characters of a text file given as its lines
RECURSIVE Lines(_)
Lines(ls) == IF ls = <<>> THEN <<>> ELSE Head(ls) \o <<"\n">> \o Lines(Tail(ls))

\* tiles files: a walled 3x3 room, and an empty file
TilesFiles ==
    {Lines(<< <<"X", "X", "X">>, <<"X", " ", "2">>, <<"#", "X", "X">> >>), <<>>}

\* lines of an info file: empty, blank, an east spawn, a north spawn, a
\* trigger and a west spawn, two spawns on one line
InfoLines ==
    {<<>>, <<" ", " ">>, <<" ", ">">>, <<"^">>, <<" ", "F", "<">>,
     <<" ", "V", ">">>}

InfoFiles == {Lines(<<a, b, c>>) : a \in InfoLines, b \in InfoLines, c \in InfoLines}

SpritesFiles == {Lines(<< <<" ", "1">>, <<"9", "0", "a">> >>)}

InitPlanes ==
    /\ map = ZeroMap
    /\ player = ZeroPlayer
    /\ game_over = FALSE
    /\ hits = [x \in Columns |-> ZeroHit]
    /\ z_buffer = [x \in Columns |-> 0]
    /\ visible_sprites = [i \in Slots |-> ZeroSprite]
    /\ visible_sprite_count = 0
    /\ qsort_ties = "first"
    /\ last = "init"
    /\ ticks = 0
    /\ probe = NoProbe
    /\ seen = {}
    /\ pending = {}
    /\ SortInit
    /\ LoopInit
    /\ WalkInit
    /\ file \in TilesFiles \cup {NoFile}
    /\ info_file \in InfoFiles \cup {NoFile}
    /\ sprites_file \in SpritesFiles \cup {NoFile, NoPath}
    /\ load_ret = "none"
    /\ cells_written = {}
    /\ oob_write = "no_effect"

NextPlanes == map_load_planes

SpecPlanes == InitPlanes /\ [][NextPlanes]_vars

(***************************************************************************)
(* sprites_sort as a pure function of the sprite table and the player      *)
(***************************************************************************)
\* positions a world sprite is placed at: cell centres at squared distances
\* 0, 1, 1, 4 and 5 from the player of InitSort
SpritePlaces == {<<1500, 1500>>, <<2500, 1500>>, <<1500, 2500>>,
                 <<3500, 1500>>, <<3500, 2500>>}

InitSort ==
    /\ map = BoxMap
    /\ player = PlayerAt(1500, 1500, 1000, 0)
    /\ game_over = FALSE
    /\ hits = [x \in Columns |-> ZeroHit]
    /\ z_buffer = [x \in Columns |-> 0]
    /\ visible_sprites = [i \in Slots |-> ZeroSprite]
    /\ visible_sprite_count = 0
    /\ qsort_ties = "first"
    /\ last = "init"
    /\ ticks = 0
    /\ probe = NoProbe
    /\ seen = {}
    /\ pending = {}
    /\ sprites \in [SpriteIdx -> {WorldSprite(s[1], s[2], 0) : s \in SpritePlaces}]
    /\ sprite_count \in -1 .. MAX_SPRITES + 1
    /\ sorted_order = [i \in SpriteIdx |-> -1]
    /\ sort_n = 0
    /\ LoopInit
    /\ WalkInit
    /\ LoadInit

NextSort == sprites_sort

SpecSort == InitSort /\ [][NextSort]_vars

(***************************************************************************)
(* is_wall as a pure function: queries over a grid of positions            *)
(***************************************************************************)
\* a BoxMap whose info and sprite planes are filled differently
BoxMapMarked ==
    [BoxMap EXCEPT !.info    = [r \in 0 .. 4 |-> [c \in 0 .. 4 |-> 5]],
                   !.sprites = [r \in 0 .. 4 |-> [c \in 0 .. 4 |-> 3]]]

\* an OpenMap whose info and sprite planes are empty
OpenMapBare ==
    [OpenMap EXCEPT !.info    = [r \in 0 .. 2 |-> [c \in 0 .. 3 |-> 0]],
                    !.sprites = [r \in 0 .. 2 |-> [c \in 0 .. 3 |-> 0]]]

\* probe coordinates: below -1, between -1 and 0, on and inside cells, beyond
ProbeCoords == {-1500, -1000, -999, -500, -1, 0, 1, 999, 1000, 1500, 2500,
                2999, 3000, 3999, 4000, 4500, 4999, 5000, 5500}

InitWall ==
    /\ map \in {BoxMap, BoxMapMarked, OpenMap, OpenMapBare}
    /\ player = PlayerAt(1500, 1500, 1000, 0)
    /\ game_over = FALSE
    /\ hits = [x \in Columns |-> ZeroHit]
    /\ z_buffer = [x \in Columns |-> 0]
    /\ visible_sprites = [i \in Slots |-> ZeroSprite]
    /\ visible_sprite_count = 0
    /\ qsort_ties = "first"
    /\ last = "init"
    /\ ticks = 0
    /\ probe = NoProbe
    /\ seen = {}
    /\ pending = {}
    /\ SortInit
    /\ LoopInit
    /\ WalkInit
    /\ LoadInit

IsWallQuery ==
    /\ \E x \in ProbeCoords, y \in ProbeCoords :
           probe' = [x |-> x, y |-> y, res |-> is_wall(map, x, y)]
    /\ last' = "is_wall"
    /\ UNCHANGED <<sortVars, loopVars, loadVars, walkVars>>
    /\ UNCHANGED <<map, player, game_over, hits, z_buffer, visible_sprites,
                   visible_sprite_count, qsort_ties, ticks, seen, pending>>

NextWall == IsWallQuery

SpecWall == InitWall /\ [][NextWall]_vars

(***************************************************************************)
(* Claims                                                                  *)
(***************************************************************************)

\* C1: starting inside an in-bounds floor cell, after any sequence of
\* rc_update calls (every tick with MOVE_SPD*dt + COL_MARGIN < 1) the player
\* is inside [0,w) x [0,h) and its cell has tile code 0, on any map.
C1_PlayerStaysOnFloor == InFloorCell(player, map)

\* the cell of the map that contains the continuous position (x, y), if any
CellOf(m, x, y) ==
    {c \in (0 .. m.w - 1) \X (0 .. m.h - 1) :
        /\ c[1] * SCALE <= x /\ x < (c[1] + 1) * SCALE
        /\ c[2] * SCALE <= y /\ y < (c[2] + 1) * SCALE}

\* the player is in an in-bounds end-trigger cell, within COL_MARGIN
\* (Euclidean) of the cell's exact centre
NearTriggerCentre(p, m) ==
    \E c \in CellOf(m, p.x, p.y) :
        /\ m.info[c[2]][c[1]] = 5
        /\ (p.x - (c[1] * SCALE + 500)) * (p.x - (c[1] * SCALE + 500))
             + (p.y - (c[2] * SCALE + 500)) * (p.y - (c[2] * SCALE + 500))
           <= COL_MARGIN * COL_MARGIN

\* C2: on every tick (whatever the input flags) rc_update sets game_over
\* exactly when, after the tick's movement, the player's cell is in bounds,
\* carries the end-trigger and the player is within COL_MARGIN of its
\* centre; otherwise game_over keeps its value.
C2_GameOverOnlyAtCentre ==
    [][last' = "update" =>
         (game_over' <=> (game_over \/ NearTriggerCentre(player', map)))]_vars

\* a tick that took the player from outside the radius to within it set the flag
C2_Witness ==
    /\ last = "update" /\ game_over
    /\ player.x = 3500 /\ player.y = 1500 /\ map = BoxMap

\* C3: in one rc_update x advances by dx exactly when the X probe
\* (x + dx +/- margin, y) is not solid; then y advances by dy exactly when
\* the Y probe at the already-updated x, (x_after, y + dy +/- margin), is
\* not solid.  Neither axis' outcome depends on the other's being blocked.
C3_AxesResolvedInOrder ==
    [][\A in \in Inputs, dt \in DTs :
         (last' = "update" /\ player' = UpdatePlayer(player, map, in, dt)) =>
           LET dx == Displacement(player'.dir_x, in, dt)
               dy == Displacement(player'.dir_y, in, dt)
               mx == IF dx > 0 THEN COL_MARGIN ELSE -COL_MARGIN
               my == IF dy > 0 THEN COL_MARGIN ELSE -COL_MARGIN
           IN  /\ player'.x = IF is_wall(map, player.x + dx + mx, player.y)
                              THEN player.x ELSE player.x + dx
               /\ player'.y = IF is_wall(map, player'.x, player.y + dy + my)
                              THEN player.y ELSE player.y + dy]_vars

\* sliding: from (3.5, 3.5) facing (0.6, -0.8) a 0.25 s forward tick is
\* blocked in X by the east wall and still moves 0.6 in Y
C3_Witness ==
    /\ last = "update" /\ map = BoxMap
    /\ player.dir_x = 600 /\ player.dir_y = -800
    /\ player.x = 3500 /\ player.y = 2900

\* C4: is_wall is true for every position outside [0,w) x [0,h), whatever
\* the tile plane holds, and inside the map exactly when the containing
\* cell's tile code is > 0.
C4_OutOfBoundsIsSolid ==
    last = "is_wall" =>
        LET inside == /\ probe.x >= 0 /\ probe.x < map.w * SCALE
                      /\ probe.y >= 0 /\ probe.y < map.h * SCALE
        IN  IF inside
            THEN probe.res = (map.tiles[probe.y \div SCALE][probe.x \div SCALE] > 0)
            ELSE probe.res = TRUE

\* buffers as memset leaves them, to cast one column on its own
ZeroCs ==
    [hits |-> [x \in Columns |-> ZeroHit], z |-> [x \in Columns |-> 0],
     vs |-> [i \in Slots |-> ZeroSprite], cnt |-> 0, seen |-> {}]

\* the hit record of column x, from the player and the map alone
ColumnHit(p, m, x) == HitRecord(p, m, DDALoop(p, m, RaySetup(p, x), ZeroCs).ray)

\* C5: after every rc_cast, every column's hit record and depth entry hold
\* what this cast computes for that column from the current player and
\* map (nothing is left from an earlier call or from initialisation), and
\* z_buffer[x] equals hits[x].wall_dist.
C5_EveryColumnWritten ==
    last = "cast" =>
        \A x \in Columns :
            /\ hits[x] = ColumnHit(player, map, x)
            /\ z_buffer[x] = hits[x].wall_dist

\* a cast that followed a tick: the buffers held zeroes or an older frame
C5_Witness ==
    /\ last = "cast" /\ ticks = 1
    /\ \A x \in Columns : hits[x] # ZeroHit

\* C6: a second rc_cast with the same map and player leaves hits, z_buffer,
\* the visible-sprite list and its count exactly as the first one left
\* them, whatever the buffers held before the first call.
C6_CastIdempotent ==
    [][(last = "cast" /\ last' = "cast") =>
         UNCHANGED <<hits, z_buffer, visible_sprites, visible_sprite_count>>]_vars

\* a cast over the buffers of an older frame that lists sprites
C6_Witness ==
    /\ last = "cast" /\ ticks = 1 /\ visible_sprite_count > 0

\* cells the DDA steps into before it terminates
RECURSIVE DDACells(_, _)
DDACells(m, r) ==
    LET r1 == DDAStep(r)
    IN  IF IsHit(m, r1) THEN {}
        ELSE {<<r1.map_x, r1.map_y>>} \cup DDACells(m, r1)

\* columns whose ray steps into cell c
ColumnsSweeping(p, m, c) == {x \in Columns : c \in DDACells(m, RaySetup(p, x))}

\* the player's own cell, when in bounds
OwnCell(p, m) ==
    IF InBounds(m, Trunc(p.x), Trunc(p.y)) THEN {<<Trunc(p.x), Trunc(p.y)>>} ELSE {}

\* sprite cells swept by some ray or holding the player
SweptSpriteCells(p, m) ==
    {c \in (0 .. m.w - 1) \X (0 .. m.h - 1) :
        /\ m.sprites[c[2]][c[1]] # 0
        /\ (c \in OwnCell(p, m) \/ ColumnsSweeping(p, m, c) # {})}

\* slots of the visible list that hold the sprite of cell c
SlotsOf(c) ==
    {i \in 0 .. visible_sprite_count - 1 :
        /\ visible_sprites[i].x = c[1] * SCALE + 500
        /\ visible_sprites[i].y = c[2] * SCALE + 500}

\* C7: after rc_cast no sprite cell is listed twice, however many rays
\* sweep it (also the player's own cell); while the list is not full, every
\* swept sprite cell in front of the camera is listed exactly once.
C7_SpritesListedOnce ==
    last = "cast" =>
        /\ \A i, j \in 0 .. visible_sprite_count - 1 :
               (visible_sprites[i].x = visible_sprites[j].x
                  /\ visible_sprites[i].y = visible_sprites[j].y) => i = j
        /\ visible_sprite_count < MAX_VISIBLE_SPRITES =>
               \A c \in SweptSpriteCells(player, map) :
                   SpritePerpDist(player, c[1], c[2]) > 0
                       => Cardinality(SlotsOf(c)) = 1

\* a sprite cell swept by two or more rays is listed once
C7_Witness ==
    /\ last = "cast"
    /\ \E c \in SweptSpriteCells(player, map) :
           /\ Cardinality(ColumnsSweeping(player, map, c)) >= 2
           /\ Cardinality(SlotsOf(c)) = 1

\* the records the column loop collected for the current player, in
\* collection order
Collected ==
    CastCollect(player, map, hits, z_buffer, visible_sprites, visible_sprite_count)

\* C8: when rc_cast returns, visible_sprites[0 .. count) is ordered by
\* perp_dist non-increasing and is a permutation of the records collected
\* by the column loop: none dropped, none duplicated, count unchanged.
C8_SortedPermutation ==
    last = "cast" =>
        /\ visible_sprite_count = Collected.cnt
        /\ \A i \in 0 .. visible_sprite_count - 2 :
               visible_sprites[i].perp_dist >= visible_sprites[i + 1].perp_dist
        /\ \A i \in 0 .. visible_sprite_count - 1 :
               Cardinality({j \in 0 .. visible_sprite_count - 1 :
                               visible_sprites[j] = Collected.vs[i]})
               = Cardinality({j \in 0 .. visible_sprite_count - 1 :
                               Collected.vs[j] = Collected.vs[i]})

\* the sort moved records: the nearer sprite was collected first
C8_Witness ==
    /\ last = "cast" /\ visible_sprite_count >= 2
    /\ Collected.vs[0].perp_dist < Collected.vs[1].perp_dist
    /\ visible_sprites[0] = Collected.vs[1]

\* C9: after rc_cast every column has wall_dist >= 0.001 and
\* z_buffer >= 0.001 and side in {0, 1}, for every position and facing,
\* also on a cell boundary or directly against a wall.
C9_DistancePositive ==
    last = "cast" =>
        \A x \in Columns :
            /\ hits[x].wall_dist >= 1
            /\ z_buffer[x] >= 1
            /\ hits[x].side \in {0, 1}

\* the player stands on the boundary x = 1.0 against the west wall; a column
\* was clamped
C9_Witness ==
    /\ last = "cast" /\ map = BoxMap /\ player.x = 1000
    /\ \E x \in Columns : hits[x].wall_dist = 1

\* cells from (cx, cy) along (sx, sy), k of them away
Solid(m, cx, cy) == ~(cx >= 0 /\ cy >= 0 /\ cx < m.w /\ cy < m.h) \/ m.tiles[cy][cx] > 0

\* the number of cells to the first solid cell along an axis direction
FirstSolid(m, cx, cy, sx, sy) ==
    CHOOSE d \in 1 .. (m.w + m.h) :
        /\ Solid(m, cx + d * sx, cy + d * sy)
        /\ \A k \in 1 .. d - 1 : ~Solid(m, cx + k * sx, cy + k * sy)

AxisDirs == {<<1, 0>>, <<-1, 0>>, <<0, 1>>, <<0, -1>>}

\* the player is at a cell centre of a floor cell, facing exactly along s
AtCentreFacing(p, m, s) ==
    /\ InFloorCell(p, m)
    /\ p.x % SCALE = 500 /\ p.y % SCALE = 500
    /\ p.dir_x = s[1] * SCALE /\ p.dir_y = s[2] * SCALE
    /\ p.plane_x * s[1] = 0 /\ p.plane_y * s[2] = 0

\* C10: for a player at a cell centre facing exactly along +x, -x, +y or
\* -y, the centre column reports wall_dist = D - 0.5 for the first wall
\* cell D cells away along that axis, with side 0 for travel along x and 1
\* for travel along y.
C10_StraightRay ==
    last = "cast" =>
        \A s \in AxisDirs :
            AtCentreFacing(player, map, s) =>
                LET d == FirstSolid(map, player.x \div SCALE, player.y \div SCALE,
                                    s[1], s[2])
                IN  /\ hits[SCREEN_W \div 2].wall_dist = d * SCALE - 500
                    /\ hits[SCREEN_W \div 2].side = (IF s[1] # 0 THEN 0 ELSE 1)

\* facing west from a centre with the wall three cells away: 2.5
C10_Witness ==
    /\ last = "cast" /\ map = BoxMap
    /\ AtCentreFacing(player, map, <<-1, 0>>)
    /\ hits[SCREEN_W \div 2].wall_dist = 2500
    /\ hits[SCREEN_W \div 2].side = 0

\* what the left-to-right loop computes from zeroed buffers
LeftToRight(p, m) == ColumnLoop(p, m, 0, CollectStartCell(ZeroCs, p, m))

\* C11: for a fixed map and player the hit record and depth entry of column
\* x depend on x alone: whatever the order in which the columns are cast,
\* every column already cast holds exactly what the left-to-right loop
\* stores for it.
C11_ColumnsIndependent ==
    last \in {"cast_column", "cast"} =>
        \A x \in Columns \ pending :
            /\ hits[x] = LeftToRight(player, map).hits[x]
            /\ z_buffer[x] = LeftToRight(player, map).z[x]

\* the rightmost columns were cast before column 0, and sprites were
\* collected on the way
C11_Witness ==
    /\ last = "cast_column" /\ pending = {0}
    /\ visible_sprite_count > 0

\* squared length and dot product, in units of 1/SCALE^2
Norm2(x, y) == x * x + y * y
Dot(ax, ay, bx, by) == ax * bx + ay * by

\* floating tolerance on squared lengths and dot products: 0.01
RotTolerance == (SCALE * SCALE) \div 100

\* |dir| = 1, |plane| = tan(FOV/2) and dir . plane = 0, as at spawn
FovPreserved(p) ==
    /\ Abs(Norm2(p.dir_x, p.dir_y) - SCALE * SCALE) <= RotTolerance
    /\ Abs(Norm2(p.plane_x, p.plane_y) - PLANE_LEN * PLANE_LEN) <= RotTolerance
    /\ Abs(Dot(p.dir_x, p.dir_y, p.plane_x, p.plane_y)) <= RotTolerance

SweptSoFar ==
    {c \in (0 .. map.w - 1) \X (0 .. map.h - 1) :
        /\ map.sprites[c[2]][c[1]] # 0
        /\ \/ c \in OwnCell(player, map)
           \/ \E x \in Columns \ pending : c \in DDACells(map, RaySetup(player, x))}

\* swept sprite cells whose sprite is in front of the camera
InFrontSoFar == {c \in SweptSoFar : SpritePerpDist(player, c[1], c[2]) > 0}

\* C13: at every point during and after rc_cast the count is within
\* 0 .. MAX_VISIBLE_SPRITES and the list has exactly its MAX_VISIBLE_SPRITES
\* slots; the count is the number of swept sprites in front of the camera,
\* cut at the capacity, and every swept sprite cell is marked in seen[][],
\* the dropped ones too.
C13_CountWithinCapacity ==
    /\ visible_sprite_count \in 0 .. MAX_VISIBLE_SPRITES
    /\ DOMAIN visible_sprites = Slots
    /\ last \in {"cast_begin", "cast_column", "cast"} =>
           /\ SweptSoFar = seen
           /\ visible_sprite_count =
                  IF Cardinality(InFrontSoFar) < MAX_VISIBLE_SPRITES
                  THEN Cardinality(InFrontSoFar) ELSE MAX_VISIBLE_SPRITES

\* more sprites in front of the camera were swept than the list holds
C13_Witness ==
    /\ last \in {"cast_column", "cast"}
    /\ Cardinality(InFrontSoFar) > MAX_VISIBLE_SPRITES
    /\ visible_sprite_count = MAX_VISIBLE_SPRITES

\* sprite cells (swept or the player's own) whose centre is on or behind
\* the camera plane
NotInFront(p, m) ==
    {c \in SweptSpriteCells(p, m) : SpritePerpDist(p, c[1], c[2]) <= 0}

\* C14: every record listed after rc_cast has perp_dist > 0, and it is the
\* camera-space depth of its cell centre; a sprite whose cell centre is on
\* or behind the camera plane is never listed, even when rays sweep its
\* cell or it shares the player's cell.
C14_OnlySpritesInFront ==
    last = "cast" =>
        /\ \A i \in 0 .. visible_sprite_count - 1 :
               /\ visible_sprites[i].perp_dist > 0
               /\ visible_sprites[i].perp_dist =
                      SpritePerpDist(player,
                                     (visible_sprites[i].x - 500) \div SCALE,
                                     (visible_sprites[i].y - 500) \div SCALE)
        /\ \A c \in NotInFront(player, map) : SlotsOf(c) = {}

\* the player shares a cell with a sprite whose centre is behind the
\* camera plane, and the cast listed other sprites
C14_Witness ==
    /\ last = "cast"
    /\ visible_sprite_count > 0
    /\ \E c \in NotInFront(player, map) :
           c \in OwnCell(player, map) /\ SpritePerpDist(player, c[1], c[2]) < 0

\* the cell in which the ray of column x terminates
TerminalCell(p, m, x) ==
    LET r == DDALoop(p, m, RaySetup(p, x), ZeroCs).ray
    IN  <<r.map_x, r.map_y>>

\* C15: for every column, tile_type is the terminating cell's tile code
\* minus one when that cell is in bounds, and its code is then > 0; the
\* fallback 0 is stored only for a ray that terminates out of bounds.
C15_TileTypeIsCodeMinusOne ==
    last = "cast" =>
        \A x \in Columns :
            LET c == TerminalCell(player, map, x)
            IN  IF c \in (0 .. map.w - 1) \X (0 .. map.h - 1)
                THEN /\ map.tiles[c[2]][c[1]] > 0
                     /\ hits[x].tile_type = map.tiles[c[2]][c[1]] - 1
                ELSE hits[x].tile_type = 0

\* one frame with a ray ending on a tile of code 2 (texture 1) and a ray
\* that leaves the map
C15_Witness ==
    /\ last = "cast"
    /\ \E x \in Columns :
           LET c == TerminalCell(player, map, x)
           IN  /\ c \in (0 .. map.w - 1) \X (0 .. map.h - 1)
               /\ map.tiles[c[2]][c[1]] = 2
               /\ hits[x].tile_type = 1
    /\ \E x \in Columns :
           TerminalCell(player, map, x) \notin (0 .. map.w - 1) \X (0 .. map.h - 1)

\* every cell the ray of column x steps into, the terminating one included
RayCells(p, m, x) == DDACells(m, RaySetup(p, x)) \cup {TerminalCell(p, m, x)}

\* the distance along one axis from position pos to the face of cell index
\* cell that a ray of component ray on that axis enters, over ray, clamped
AxisDistance(pos, cell, ray) ==
    LET edge == cell * SCALE + (IF ray < 0 THEN SCALE ELSE 0)
        perp == Quot(edge - pos, ray)
    IN  IF perp < 1 THEN 1 ELSE perp

\* C16: when the ray of a column has one component exactly zero and the
\* other not, the zero axis' cell-crossing distance is the large sentinel,
\* the ray never leaves its row (column) of cells on that axis, the
\* terminating side is the other axis, and the distance stored is the
\* finite quotient by the non-zero component.
C16_ZeroComponentRay ==
    last = "cast" =>
        \A x \in Columns :
            LET r == RaySetup(player, x)
                t == TerminalCell(player, map, x)
            IN  /\ (r.ray_dx = 0 /\ r.ray_dy # 0) =>
                       /\ r.delta_dx = HUGE
                       /\ \A c \in RayCells(player, map, x) : c[1] = Trunc(player.x)
                       /\ hits[x].side = 1
                       /\ hits[x].wall_dist = AxisDistance(player.y, t[2], r.ray_dy)
                       /\ hits[x].wall_dist < HUGE
                /\ (r.ray_dy = 0 /\ r.ray_dx # 0) =>
                       /\ r.delta_dy = HUGE
                       /\ \A c \in RayCells(player, map, x) : c[2] = Trunc(player.y)
                       /\ hits[x].side = 0
                       /\ hits[x].wall_dist = AxisDistance(player.x, t[1], r.ray_dx)
                       /\ hits[x].wall_dist < HUGE

\* off-centre in its cell and standing on a cell boundary, the player faces
\* along y: the centre ray has ray_dx = 0 and crosses at least one cell
C16_Witness ==
    /\ last = "cast"
    /\ player.x % SCALE = 0
    /\ \E x \in Columns :
           /\ RaySetup(player, x).ray_dx = 0
           /\ RaySetup(player, x).ray_dy # 0
           /\ Cardinality(RayCells(player, map, x)) >= 2
           /\ hits[x].side = 1

\* squared distance from the player to the sprite at index i
PlayerDistSq(i) == DistSq(sprites[i], player.x, player.y)

\* C17: sprites_sort returns n = 0 when sprite_count <= 0 and otherwise
\* min(sprite_count, MAX_SPRITES); sorted_order[0 .. n) is a permutation of
\* 0 .. n-1 with squared distance to the player non-increasing, sprites at
\* equal distance in input order; gs is not modified.
C17_SortedFarthestFirst ==
    /\ [](last = "sprites_sort" =>
            /\ sort_n = (IF sprite_count <= 0 THEN 0
                         ELSE IF sprite_count > MAX_SPRITES THEN MAX_SPRITES
                         ELSE sprite_count)
            /\ {sorted_order[i] : i \in 0 .. sort_n - 1} = 0 .. sort_n - 1
            /\ \A i \in 0 .. sort_n - 2 :
                   /\ PlayerDistSq(sorted_order[i]) >= PlayerDistSq(sorted_order[i + 1])
                   /\ PlayerDistSq(sorted_order[i]) = PlayerDistSq(sorted_order[i + 1])
                          => sorted_order[i] < sorted_order[i + 1])
    /\ [][last' = "sprites_sort" =>
              UNCHANGED <<player, sprites, sprite_count, game_over, hits,
                          z_buffer>>]_vars

\* nearest first in the table with two sprites at the same distance: the
\* sort reverses the order of distances and keeps the equal pair's order
C17_Witness ==
    /\ last = "sprites_sort" /\ sort_n = 3
    /\ PlayerDistSq(0) < PlayerDistSq(1)
    /\ PlayerDistSq(1) = PlayerDistSq(2)
    /\ sorted_order[0] = 1 /\ sorted_order[1] = 2 /\ sorted_order[2] = 0

\* the two collision probes of a step (dx, dy) from p are both clear
ProbesClear(p, m, dx, dy) ==
    /\ ~is_wall(m, p.x + dx + (IF dx > 0 THEN COL_MARGIN ELSE -COL_MARGIN), p.y)
    /\ ~is_wall(m, p.x + dx, p.y + dy + (IF dy > 0 THEN COL_MARGIN ELSE -COL_MARGIN))

OnlyForward == [forward |-> TRUE, back |-> FALSE,
                turn_left |-> FALSE, turn_right |-> FALSE]
OnlyBack    == [forward |-> FALSE, back |-> TRUE,
                turn_left |-> FALSE, turn_right |-> FALSE]
NoFlag      == [forward |-> FALSE, back |-> FALSE,
                turn_left |-> FALSE, turn_right |-> FALSE]

\* C18: one rc_update with only forward (only back) set and both probes
\* clear moves the player by exactly dir * MOVE_SPD * dt (its negative) and
\* changes nothing else of the player; with no flag set the player does
\* not move.
C18_ForwardStepIsSpeedTimesDt ==
    [][\A dt \in DTs :
         LET sx == Mul(Mul(player.dir_x, MOVE_SPD), dt)
             sy == Mul(Mul(player.dir_y, MOVE_SPD), dt)
         IN  /\ (last' = "update"
                   /\ player' = UpdatePlayer(player, map, OnlyForward, dt)
                   /\ ProbesClear(player, map, sx, sy)) =>
                    player' = [player EXCEPT !.x = player.x + sx,
                                             !.y = player.y + sy]
             /\ (last' = "update"
                   /\ player' = UpdatePlayer(player, map, OnlyBack, dt)
                   /\ ProbesClear(player, map, -sx, -sy)) =>
                    player' = [player EXCEPT !.x = player.x - sx,
                                             !.y = player.y - sy]
             /\ (last' = "update"
                   /\ player' = UpdatePlayer(player, map, NoFlag, dt)) =>
                    player' = player]_vars

\* a 0.017 s forward tick from (1.5, 1.5) facing (0.6, -0.8): the player
\* moved 0.031 in x and -0.041 in y
C18_Witness ==
    /\ last = "update" /\ map = BoxMap
    /\ player.dir_x = 600 /\ player.dir_y = -800
    /\ player.x = 1531 /\ player.y = 1459

\* C19: in every iteration of the main loop, whatever the measured frame
\* time, at most 15 rc_update calls run, and when the inner update loop
\* has been left the accumulator satisfies 0 <= accum < DT.
C19_AtMostFifteenUpdates ==
    /\ updates <= 15
    /\ pc = "top" => (0 <= accum /\ accum < DT)

\* an iteration that ran 15 updates: a stall after a frame that left
\* accum just short of DT
C19_Witness ==
    /\ pc = "top" /\ frames = 2
    /\ updates = 15
    /\ accum > 0

\* C20: after map_load returns, for any input file (lines longer than
\* MAP_MAX_W characters and more than MAP_MAX_H lines included),
\* 0 <= map.w <= MAP_MAX_W and 0 <= map.h <= MAP_MAX_H, every cell stored
\* lies at a column < MAP_MAX_W and a row < MAP_MAX_H, and every tile code
\* is in 0 .. 10.
C20_LoadedMapWithinLimits ==
    last = "map_load" =>
        /\ 0 <= map.w /\ map.w <= MAP_MAX_W
        /\ 0 <= map.h /\ map.h <= MAP_MAX_H
        /\ \A c \in cells_written : c[1] < MAP_MAX_H /\ c[2] < MAP_MAX_W
        /\ \A r \in 0 .. MAP_MAX_H - 1, c \in 0 .. MAP_MAX_W - 1 :
               map.tiles[r][c] \in 0 .. 10

\* cells of the info plane that carry one of the four spawn codes
SpawnCells ==
    {c \in (0 .. MAP_MAX_W - 1) \X (0 .. MAP_MAX_H - 1) :
        map.info[c[2]][c[1]] \in 1 .. 4}

\* C21: map_load returns true only if the info plane holds exactly one
\* spawn marker; with none, or with more than one, it returns false.
C21_ExactlyOneSpawn ==
    last = "map_load_planes" =>
        (load_ret = "true" => Cardinality(SpawnCells) = 1)

\* the one-position-spacing allowance of a step, 2^-19 for x < 64
WalkSlack == FUnit \div 524288

\* C22 as stated: walking forward along the centre line of the trigger's
\* row with a step MOVE_SPD * dt <= 2 * COL_MARGIN, the player is never
\* beyond the trigger cell with game_over still false.
C22_TriggerNotSteppedOver ==
    (/\ last = "walk"
     /\ WalkDx(fdt) <= RoundFloat(2 * COL_MARGIN_F)
     /\ FloatCell(fx) > TriggerCol(map)) => game_over

\* C22 (amended): the same with the step at least one spacing of the
\* player's float coordinate below 2 * COL_MARGIN.
C22_TriggerNotSteppedOverWithSlack ==
    (/\ last = "walk"
     /\ WalkDx(fdt) <= RoundFloat(2 * COL_MARGIN_F) - WalkSlack
     /\ FloatCell(fx) > TriggerCol(map)) => game_over

\* the walk reached the trigger's disc with the largest admitted step
C22_Witness ==
    /\ last = "walk"
    /\ WalkDx(fdt) = RoundFloat(2 * COL_MARGIN_F) - WalkSlack
    /\ FloatCell(fx) = TriggerCol(map)
    /\ fx > TriggerCol(map) * FUnit + FUnit \div 2
    /\ game_over

\* the ray state after each iteration of the DDA loop, up to the hit
RECURSIVE DDATrace(_, _)
DDATrace(m, r) ==
    LET r1 == DDAStep(r)
    IN  IF IsHit(m, r1) THEN <<r1>> ELSE <<r1>> \o DDATrace(m, r1)

\* the ray state before iteration i of a trace that started from r0
Before(tr, r0, i) == IF i = 1 THEN r0 ELSE tr[i - 1]

\* C23: for every column, every cell the DDA steps into before the
\* terminating one is in bounds with tile code 0, the terminating cell is
\* out of bounds or has a tile code > 0, each step changes exactly one of
\* map_x / map_y by its fixed step sign, side is the axis of the last step
\* (and is what hits[x].side records), and the start cell is not among the
\* cells tested.
C23_DDAStepsOneAxis ==
    last = "cast" =>
        \A x \in Columns :
            LET r0 == RaySetup(player, x)
                tr == DDATrace(map, r0)
                n  == Len(tr)
            IN  /\ \A i \in 1 .. n - 1 :
                       /\ InBounds(map, tr[i].map_x, tr[i].map_y)
                       /\ map.tiles[tr[i].map_y][tr[i].map_x] = 0
                /\ \/ ~InBounds(map, tr[n].map_x, tr[n].map_y)
                   \/ map.tiles[tr[n].map_y][tr[n].map_x] > 0
                /\ \A i \in 1 .. n :
                       LET b == Before(tr, r0, i)
                       IN  /\ tr[i].step_x = r0.step_x /\ tr[i].step_y = r0.step_y
                           /\ \/ /\ tr[i].map_x = b.map_x + r0.step_x
                                 /\ tr[i].map_y = b.map_y
                                 /\ tr[i].side = 0
                              \/ /\ tr[i].map_x = b.map_x
                                 /\ tr[i].map_y = b.map_y + r0.step_y
                                 /\ tr[i].side = 1
                           /\ <<tr[i].map_x, tr[i].map_y>> # <<r0.map_x, r0.map_y>>
                /\ hits[x].side = tr[n].side
                /\ hits[x].tile_type = TileType(map, tr[n])

\* a cast in which one ray takes steps on both axes before it ends on a
\* wall tile, and another ray ends outside the map
C23_Witness ==
    /\ last = "cast"
    /\ \E x \in Columns :
           LET tr == DDATrace(map, RaySetup(player, x))
           IN  /\ Len(tr) >= 3
               /\ \E i, j \in 1 .. Len(tr) - 1 : tr[i].side = 0 /\ tr[j].side = 1
               /\ InBounds(map, tr[Len(tr)].map_x, tr[Len(tr)].map_y)
               /\ hits[x].side = tr[Len(tr)].side
    /\ \E x \in Columns :
           LET tr == DDATrace(map, RaySetup(player, x))
           IN  ~InBounds(map, tr[Len(tr)].map_x, tr[Len(tr)].map_y)

\* all cells of the map
MapCells(m) == (0 .. m.w - 1) \X (0 .. m.h - 1)

\* floor cells that the DDA of at least one column steps into
SweptFloorCells(p, m) ==
    {c \in MapCells(m) :
        m.tiles[c[2]][c[1]] = TILE_FLOOR /\ ColumnsSweeping(p, m, c) # {}}

\* C24: every sprite listed after rc_cast sits at the centre of the
\* player's own cell or of an in-bounds floor cell that some column's DDA
\* stepped into, with texture_id = sprite code - 1; a marker on a wall
\* tile or in a cell no ray steps into is never listed.
C24_ListedSpritesWereSwept ==
    last = "cast" =>
        /\ \A i \in 0 .. visible_sprite_count - 1 :
               \E c \in OwnCell(player, map) \cup SweptFloorCells(player, map) :
                   /\ visible_sprites[i].x = c[1] * SCALE + SCALE \div 2
                   /\ visible_sprites[i].y = c[2] * SCALE + SCALE \div 2
                   /\ map.sprites[c[2]][c[1]] # SPRITE_EMPTY
                   /\ visible_sprites[i].texture_id = map.sprites[c[2]][c[1]] - 1
        /\ \A c \in MapCells(map) \ OwnCell(player, map) :
               (\/ map.tiles[c[2]][c[1]] > TILE_FLOOR
                \/ ColumnsSweeping(player, map, c) = {}) => SlotsOf(c) = {}

\* a cast that lists a sprite while a marker on the wall tile ending one
\* of the rays, and a marker in a floor cell no ray enters, stay unlisted
C24_Witness ==
    /\ last = "cast"
    /\ visible_sprite_count > 0
    /\ \E x \in Columns :
           LET c == TerminalCell(player, map, x)
           IN  /\ c \in MapCells(map)
               /\ map.sprites[c[2]][c[1]] # SPRITE_EMPTY
               /\ SlotsOf(c) = {}
    /\ \E c \in MapCells(map) \ OwnCell(player, map) :
           /\ map.tiles[c[2]][c[1]] = TILE_FLOOR
           /\ map.sprites[c[2]][c[1]] # SPRITE_EMPTY
           /\ ColumnsSweeping(player, map, c) = {}
           /\ SlotsOf(c) = {}

\* the cells of the first cnt records of a sprite list
CellsOf(vs, cnt) ==
    {<<(vs[i].x - SCALE \div 2) \div SCALE, (vs[i].y - SCALE \div 2) \div SCALE>> :
        i \in 0 .. cnt - 1}

\* the sprite cells the left-to-right column loop of rc_cast lists
LeftToRightCells(p, m) ==
    CellsOf(LeftToRight(p, m).vs, LeftToRight(p, m).cnt)

\* C25 as stated: whatever the order in which the columns were cast, the
\* set of sprite cells listed after rc_cast is the one the left-to-right
\* loop lists, also when more sprite cells are swept than the list holds.
C25_SpriteSetOrderFree ==
    last = "cast" =>
        CellsOf(visible_sprites, visible_sprite_count)
            = LeftToRightCells(player, map)

\* C25 (amended): the same while no more than MAX_VISIBLE_SPRITES sprite
\* cells in front of the camera are swept; the set is then all of them.
C25_SpriteSetOrderFreeWithinCapacity ==
    (last = "cast" /\ Cardinality(InFrontSoFar) <= MAX_VISIBLE_SPRITES) =>
        /\ CellsOf(visible_sprites, visible_sprite_count)
               = LeftToRightCells(player, map)
        /\ CellsOf(visible_sprites, visible_sprite_count) = InFrontSoFar

\* a cast that listed two or more sprite cells, all that were swept in
\* front of the camera
C25_Witness ==
    /\ last = "cast"
    /\ Cardinality(InFrontSoFar) >= 2
    /\ Cardinality(InFrontSoFar) <= MAX_VISIBLE_SPRITES
    /\ CellsOf(visible_sprites, visible_sprite_count) = InFrontSoFar

\* the player's position is outside [0, w) x [0, h)
OutsideMap(p, m) ==
    p.x < 0 \/ p.y < 0 \/ p.x >= m.w * SCALE \/ p.y >= m.h * SCALE

\* C26: wherever the player stands, inside or outside the map, and
\* whichever way the rays point, the DDA loop of every column ends within
\* w + h steps, and rc_cast returns with all SCREEN_W columns written.
C26_DDAWithinWPlusHSteps ==
    last = "cast" =>
        \A x \in Columns :
            LET tr == DDATrace(map, RaySetup(player, x))
            IN  /\ Len(tr) <= map.w + map.h
                /\ hits[x] = HitRecord(player, map, tr[Len(tr)])
                /\ hits[x].wall_dist > 0

\* a cast from outside the map with a ray that enters the map and takes
\* more than w steps, and a ray that ends on its first step
C26_Witness ==
    /\ last = "cast"
    /\ OutsideMap(player, map)
    /\ \E x \in Columns : Len(DDATrace(map, RaySetup(player, x))) > map.w
    /\ \E x \in Columns : Len(DDATrace(map, RaySetup(player, x))) = 1

\* C27: game_over is monotone: once true, no rc_update and no rc_cast
\* makes it false again.
C27_GameOverMonotone == [][game_over => game_over']_vars

\* the flag was set and a later tick has moved the player out of the
\* trigger's disc, with the flag still set
C27_Witness ==
    /\ game_over
    /\ ticks >= 2
    /\ ~AtTriggerCentre(player, map)

\* C28: the main loop is left at the end of the first frame in which the
\* poll reported quit or game_over is true; that frame has run all its
\* pending updates, one rc_cast and one render; and the end screen is
\* shown and waited on if and only if game_over is true at loop exit.
C28_LoopExit ==
    /\ (pc = "top" /\ frames > 0) =>
           /\ running <=> (polled /\ ~game_over)
           /\ accum < DT /\ casts = 1 /\ renders = 1
    /\ pc = "update" => ~game_over \/ updates > 0
    /\ pc \in {"top", "update"} <=> end_screen = "none"
    /\ pc \in {"end_wait", "done"} =>
           /\ ~running
           /\ ~polled \/ game_over
           /\ accum < DT /\ casts = 1 /\ renders = 1
           /\ end_screen = "shown" <=> game_over
    /\ pc = "end_wait" => game_over
    /\ pc = "done" => end_screen \in {"shown", "not shown"}

\* the loop was left after a frame in which quit was polled and the
\* trigger was reached in the first update of a burst that went on
C28_Witness ==
    /\ pc = "done"
    /\ ~polled /\ game_over
    /\ updates >= 2
    /\ end_screen = "shown"

\* C29: a step of rc_update leaves hits, z_buffer, the visible-sprite list
\* and count and every map plane as they were (it changes only the player
\* and game_over); a step of rc_cast leaves the player, game_over and
\* every map plane as they were (it changes only hits, z_buffer and the
\* visible-sprite list and count).
C29_FrameConditions ==
    [][/\ ticks' = ticks + 1 =>
            /\ last' = "update"
            /\ UNCHANGED <<map, hits, z_buffer, visible_sprites,
                           visible_sprite_count>>
       /\ ticks' = ticks =>
            /\ last' = "cast"
            /\ UNCHANGED <<map, player, game_over>>]_vars

\* a tick that moved the player and set game_over after a cast had filled
\* the buffers and listed sprites, followed by another cast
C29_Witness ==
    /\ last = "cast" /\ ticks = 1
    /\ game_over
    /\ visible_sprite_count > 0
    /\ \A x \in Columns : hits[x] # ZeroHit

\* C30: a tick with turn_left and turn_right both set rotates dir and
\* plane by +ROT_SPD * dt, as turn_right alone does; a tick with forward
\* and back both set has a zero candidate displacement and leaves the
\* position unchanged.
C30_ConflictingFlags ==
    [][\A in \in Inputs, dt \in DTs :
         (ticks' = ticks + 1 /\ player' = UpdatePlayer(player, map, in, dt)) =>
           /\ (in.turn_left /\ in.turn_right) =>
                 LET pr == Rotate(player, Mul(ROT_SPD, dt))
                 IN  /\ Mul(ROT_SPD, dt) > 0
                     /\ player'.dir_x = pr.dir_x /\ player'.dir_y = pr.dir_y
                     /\ player'.plane_x = pr.plane_x
                     /\ player'.plane_y = pr.plane_y
           /\ (in.forward /\ in.back) =>
                 /\ Displacement(player'.dir_x, in, dt) = 0
                 /\ Displacement(player'.dir_y, in, dt) = 0
                 /\ player'.x = player.x /\ player'.y = player.y]_vars

\* a tick with all four flags set: turned right by ROT_SPD * 0.25 from the
\* start facing east at (1.5, 1.5), and not moved
C30_Witness ==
    /\ last = "update" /\ ticks = 1
    /\ player = UpdatePlayer(PlayerAt(1500, 1500, 1000, 0), map,
                             [forward |-> TRUE, back |-> TRUE,
                              turn_left |-> TRUE, turn_right |-> TRUE], 250)
    /\ player.x = 1500 /\ player.y = 1500
    /\ player.dir_y > 0

====
